---- MODULE Spec2Model ----
(***************************************************************************)
(* The Deep Loop stop hook (src/unnamed/part_004): the exit gate that      *)
(* decides, each time a session tries to end, between ALLOW (exit code 0)  *)
(* and BLOCK / ESCALATE (exit code 2), from the records kept under .deep/. *)
(*                                                                         *)
(* Every file of .deep/ is one variable, a record with a field `kind`:     *)
(* "missing" (no file), "malformed" (JSON.parse throws) or "ok"; the other *)
(* fields of a missing or malformed file hold fixed defaults.  One         *)
(* evaluation (one run of main) is one action: the hook is synchronous.    *)
(* Time is counted in minutes.  A field JavaScript treats as falsy when    *)
(* absent (iteration, maxIterations, sub_calls, staleThresholdHours) is 0   *)
(* when absent.                                                            *)
(***************************************************************************)
EXTENDS Integers, Sequences, FiniteSets, TLC

VARIABLES
    now,              \* Date.now(), in minutes
    forceExit,        \* .deep/FORCE_EXIT exists
    forceComplete,    \* .deep/FORCE_COMPLETE exists
    ralphHandoff,     \* .deep/RALPH_HANDOFF exists
    escalation,       \* .deep/NEEDS_USER
    state,            \* .deep/state.json
    stateMtime,       \* modification time of .deep/state.json
    testResults,      \* .deep/test-results.json
    gitResults,       \* .deep/git-results.json
    validationState,  \* .deep/validation-state.json
    tasksData,        \* .deep/persistent-tasks.json
    failures,         \* .deep/failures.json
    rlmContext,       \* .deep/rlm-context.json
    rlmCosts,         \* .deep/rlm-costs.json
    lock,             \* .deep/agent.lock
    stateWrites,      \* how many times the hook wrote .deep/state.json
    markerWrites,     \* how many times the hook wrote .deep/NEEDS_USER
    costWrites,       \* how many times the hook wrote .deep/rlm-costs.json
    tracking,         \* per worker: the trackFailure call in progress
    proc,             \* per worker: where it stands in a call made of steps
    ret,              \* the last call other than main, and what it returned
    pre,              \* the files and the time as the last evaluation found them
    out,              \* what the last evaluation decided
    start,            \* state.json as it was first stored
    continues         \* how many evaluations returned BLOCK(ContinuePhase)

vars == <<now, forceExit, forceComplete, ralphHandoff, escalation, state,
          stateMtime, testResults, gitResults, validationState, tasksData,
          failures, rlmContext, rlmCosts, lock, stateWrites, markerWrites,
          costWrites, tracking, proc, ret, pre, out, start, continues>>

-----------------------------------------------------------------------------
(* Configuration (part_004 lines 42-48), in minutes where it is a time.    *)

MINUTES_PER_HOUR == 60
STALE_THRESHOLD_MS == 8 * MINUTES_PER_HOUR
DEFAULT_TASK_STALE_HOURS == 24
MAX_CONSECUTIVE_FAILURES == 3
LOCK_TIMEOUT_MS == 5
RLM_SUB_CALL_WARNING == 30
RLM_SUB_CALL_LIMIT == 50
\* checkValidationErrors keeps the errors of the last hour
VALIDATION_RECENT_MS == 1 * MINUTES_PER_HOUR
\* costs.sessions keeps the last 10 entries
RLM_SESSIONS_KEPT == 10

-----------------------------------------------------------------------------
(* Sequence helpers.                                                       *)

RECURSIVE SelectSeqBy(_, _)
\* Array.prototype.filter with the predicate given as the set of kept values
SelectSeqBy(s, keep) ==
    IF s = <<>> THEN <<>>
    ELSE IF Head(s) \in keep THEN <<Head(s)>> \o SelectSeqBy(Tail(s), keep)
    ELSE SelectSeqBy(Tail(s), keep)

\* Array.prototype.slice(-n)
LastN(s, n) ==
    IF Len(s) <= n THEN s ELSE SubSeq(s, Len(s) - n + 1, Len(s))

Range(s) == {s[i] : i \in DOMAIN s}

-----------------------------------------------------------------------------
(* The records.                                                            *)

Phases == {"PLAN", "BUILD", "REVIEW", "FIX", "SHIP", "COMPLETE", "CANCELLED"}
\* a phase the gate has no entry for; the protocol itself uses RLM_EXPLORE
UnlistedPhase == "RLM_EXPLORE"

StateFile(kind, phase, iteration, maxIterations, complete, lastActivity) ==
    [kind |-> kind, phase |-> phase, iteration |-> iteration,
     maxIterations |-> maxIterations, complete |-> complete,
     lastActivity |-> lastActivity]
NoState(kind) == StateFile(kind, "", 0, 0, FALSE, 0)

\* one category of test-results.json: has = the entry exists
Cat(has, ran, passed) == [has |-> has, ran |-> ran, passed |-> passed]
TestFile(kind, tests, types, lint, build, allPassed) ==
    [kind |-> kind, tests |-> tests, types |-> types, lint |-> lint,
     build |-> build, allPassed |-> allPassed]
NoTests(kind) ==
    TestFile(kind, Cat(FALSE, FALSE, FALSE), Cat(FALSE, FALSE, FALSE),
             Cat(FALSE, FALSE, FALSE), Cat(FALSE, FALSE, FALSE), FALSE)

\* enforcement flags are "true", "false" or "absent"
GitFile(kind, isGitRepo, hasGhCli, prCreated, ciChecked, ciPassed, merged, requirePR, requireCIPass, requireMerge) ==
    [kind |-> kind, isGitRepo |-> isGitRepo, hasGhCli |-> hasGhCli,
     prCreated |-> prCreated, ciChecked |-> ciChecked, ciPassed |-> ciPassed,
     merged |-> merged, requirePR |-> requirePR,
     requireCIPass |-> requireCIPass, requireMerge |-> requireMerge]
NoGit(kind) ==
    GitFile(kind, FALSE, FALSE, FALSE, FALSE, FALSE, FALSE,
            "absent", "absent", "absent")

\* validation-state.json: errors is a sequence of [file, message, timestamp]
ValidationFile(kind, errors, filesValidated) ==
    [kind |-> kind, errors |-> errors, filesValidated |-> filesValidated]
NoValidation(kind) == ValidationFile(kind, <<>>, 0)
VError(file, message, timestamp) ==
    [file |-> file, message |-> message, timestamp |-> timestamp]

\* persistent-tasks.json: tasks is a sequence of [id, status, createdAt]
TasksFile(kind, staleThresholdHours, tasks) ==
    [kind |-> kind, staleThresholdHours |-> staleThresholdHours,
     tasks |-> tasks]
NoTasks(kind) == TasksFile(kind, 0, <<>>)
Task(id, status, createdAt) ==
    [id |-> id, status |-> status, createdAt |-> createdAt]

\* failures.json: log is a set of [taskId, count, errors, lastFailure],
\* one entry per task id
FailureFile(kind, log) == [kind |-> kind, log |-> log]
NoFailures(kind) == FailureFile(kind, {})
FailureEntry(taskId, count, errors, lastFailure) ==
    [taskId |-> taskId, count |-> count, errors |-> errors,
     lastFailure |-> lastFailure]

\* NEEDS_USER
EscalationFile(kind, taskId, failureCount, errors, createdAt) ==
    [kind |-> kind, taskId |-> taskId, failures |-> failureCount,
     errors |-> errors, createdAt |-> createdAt]
NoEscalation(kind) == EscalationFile(kind, "", 0, <<>>, 0)

RlmContextFile(kind, sub_calls) == [kind |-> kind, sub_calls |-> sub_calls]
RlmCostsFile(kind, total_sub_calls, sessions) ==
    [kind |-> kind, total_sub_calls |-> total_sub_calls,
     sessions |-> sessions]

LockFile(kind, agentId, acquiredAt) ==
    [kind |-> kind, agentId |-> agentId, acquiredAt |-> acquiredAt]
NoLock(kind) == LockFile(kind, 0, 0)

\* the whole directory
Files ==
    [forceExit |-> forceExit, forceComplete |-> forceComplete,
     ralphHandoff |-> ralphHandoff, escalation |-> escalation,
     state |-> state, stateMtime |-> stateMtime,
     testResults |-> testResults, gitResults |-> gitResults,
     validationState |-> validationState, tasksData |-> tasksData,
     failures |-> failures, rlmContext |-> rlmContext,
     rlmCosts |-> rlmCosts, lock |-> lock,
     stateWrites |-> stateWrites, markerWrites |-> markerWrites,
     costWrites |-> costWrites]

-----------------------------------------------------------------------------
(* The checks of the hook, each computed as the code computes it.          *)

\* checkIterationLimit with > for >=
checkIterationLimit_Strict(st) ==
    IF st.kind # "ok" \/ st.maxIterations = 0 THEN FALSE
    ELSE st.iteration > st.maxIterations

\* checkIterationLimit: blocked?
checkIterationLimit(st) ==
    IF st.kind # "ok" \/ st.maxIterations = 0 THEN FALSE
    ELSE st.iteration >= st.maxIterations

\* isStateStale reading lastActivity instead of the file's mtime
isStateStale_ByLastActivity(f, t) ==
    IF f.state.kind = "missing" THEN TRUE
    ELSE t - f.state.lastActivity > STALE_THRESHOLD_MS

\* isStateStale: statSync of a missing file throws, which counts as stale
isStateStale(f, t) ==
    IF f.state.kind = "missing" THEN TRUE
    ELSE t - f.stateMtime > STALE_THRESHOLD_MS

TestCategories == {"tests", "types", "lint", "build"}

\* verifyTestResults without the allPassed test of lines 125-127
verifyTestResults_NoAllPassed(tr) ==
    IF tr.kind # "ok"
    THEN [valid |-> FALSE, missing |-> {"test-results"}, failed |-> {}]
    ELSE LET missing == {c \in TestCategories : ~tr[c].has \/ ~tr[c].ran}
             failed  == {c \in TestCategories :
                            tr[c].has /\ tr[c].ran /\ ~tr[c].passed}
         IN  [valid |-> missing = {} /\ failed = {},
              missing |-> missing, failed |-> failed]

\* verifyTestResults
verifyTestResults(tr) ==
    IF tr.kind # "ok"
    THEN [valid |-> FALSE, missing |-> {"test-results"}, failed |-> {}]
    ELSE LET missing == {c \in TestCategories : ~tr[c].has \/ ~tr[c].ran}
             failed  == {c \in TestCategories :
                            tr[c].has /\ tr[c].ran /\ ~tr[c].passed}
             failed2 == IF ~tr.allPassed /\ missing = {} /\ failed = {}
                        THEN {"allPassed"} ELSE failed
         IN  [valid |-> missing = {} /\ failed2 = {},
              missing |-> missing, failed |-> failed2]

\* verifyGitResults with an absent enforcement flag read as false
verifyGitResults_AbsentOff(g) ==
    IF g.kind # "ok" \/ ~g.isGitRepo \/ ~g.hasGhCli
    THEN [valid |-> TRUE, skip |-> TRUE, missing |-> {}, failed |-> {}]
    ELSE LET ok == /\ g.requirePR = "true" => g.prCreated
                   /\ g.requireCIPass = "true" => g.ciChecked /\ g.ciPassed
                   /\ g.requireMerge = "true" => g.merged
         IN  [valid |-> ok, skip |-> FALSE, missing |-> {}, failed |-> {}]

\* verifyGitResults
verifyGitResults(g) ==
    IF g.kind # "ok" \/ ~g.isGitRepo \/ ~g.hasGhCli
    THEN [valid |-> TRUE, skip |-> TRUE, missing |-> {}, failed |-> {}]
    ELSE LET missing ==
                 (IF g.requirePR # "false" /\ ~g.prCreated
                  THEN {"PR not created"} ELSE {})
                 \cup
                 (IF g.requireCIPass # "false" /\ ~g.ciChecked
                  THEN {"CI not checked"} ELSE {})
                 \cup
                 (IF g.requireMerge # "false" /\ ~g.merged
                  THEN {"PR not merged"} ELSE {})
             failed ==
                 IF g.requireCIPass # "false" /\ g.ciChecked /\ ~g.ciPassed
                 THEN {"CI failed"} ELSE {}
         IN  [valid |-> missing = {} /\ failed = {}, skip |-> FALSE,
              missing |-> missing, failed |-> failed]

\* getPendingTasks (readPersistentTasks gives null for a missing or
\* malformed file)
getPendingTasks(td, t) ==
    IF td.kind # "ok" \/ td.tasks = <<>> THEN <<>>
    ELSE LET hours == IF td.staleThresholdHours # 0
                      THEN td.staleThresholdHours
                      ELSE DEFAULT_TASK_STALE_HOURS
             staleMs == hours * MINUTES_PER_HOUR
         IN  SelectSeqBy(td.tasks,
                 {x \in Range(td.tasks) :
                     /\ x.status # "completed"
                     /\ x.status # "blocked"
                     /\ t - x.createdAt <= staleMs})

\* the current task taken as pendingTasks[0] alone
currentTask_First(pending) == Head(pending)

\* pendingTasks.find(t => t.status === 'in_progress') || pendingTasks[0]
currentTask(pending) ==
    LET inProgress == SelectSeqBy(pending,
                          {x \in Range(pending) : x.status = "in_progress"})
    IN  IF inProgress # <<>> THEN Head(inProgress) ELSE Head(pending)

\* trackFailure, from the failures.json it read: the file it writes and the
\* count it returns.  A file that does not parse throws, and the catch
\* returns 0 without writing.  An entry of errors is kept as its error text.
trackFailure(read, taskId, error, t) ==
    IF read.kind = "malformed" THEN [wrote |-> FALSE, failures |-> read,
                                     count |-> 0]
    ELSE LET had == {e \in read.log : e.taskId = taskId}
             old == IF had = {}
                    THEN FailureEntry(taskId, 0, <<>>, 0)
                    ELSE CHOOSE e \in had : TRUE
             new == FailureEntry(taskId, old.count + 1,
                                 old.errors \o <<error>>, t)
         IN  [wrote |-> TRUE,
              failures |-> FailureFile("ok", (read.log \ had) \cup {new}),
              count |-> new.count]

\* checkUserEscalation escalating above the threshold only
checkUserEscalation_Above(fl, esc, taskId, t) ==
    IF fl.kind # "ok" THEN [escalate |-> FALSE, escalation |-> esc]
    ELSE LET hit == {e \in fl.log : e.taskId = taskId
                                    /\ e.count > MAX_CONSECUTIVE_FAILURES}
         IN  IF hit = {} THEN [escalate |-> FALSE, escalation |-> esc]
             ELSE LET e == CHOOSE x \in hit : TRUE
                  IN  [escalate |-> TRUE,
                       escalation |->
                           EscalationFile("ok", taskId, e.count,
                                          LastN(e.errors, 3), t)]

\* checkUserEscalation unlinking NEEDS_USER when it does not escalate
checkUserEscalation_Clears(fl, esc, taskId, t) ==
    LET hit == IF fl.kind # "ok" THEN {}
               ELSE {e \in fl.log : e.taskId = taskId
                                    /\ e.count >= MAX_CONSECUTIVE_FAILURES}
    IN  IF hit = {}
        THEN [escalate |-> FALSE, escalation |-> NoEscalation("missing")]
        ELSE LET e == CHOOSE x \in hit : TRUE
             IN  [escalate |-> TRUE,
                  escalation |->
                      EscalationFile("ok", taskId, e.count,
                                     LastN(e.errors, 3), t)]

\* checkUserEscalation: the result and the NEEDS_USER file it leaves
checkUserEscalation(fl, esc, taskId, t) ==
    IF fl.kind # "ok" THEN [escalate |-> FALSE, escalation |-> esc]
    ELSE LET hit == {e \in fl.log : e.taskId = taskId
                                    /\ e.count >= MAX_CONSECUTIVE_FAILURES}
         IN  IF hit = {} THEN [escalate |-> FALSE, escalation |-> esc]
             ELSE LET e == CHOOSE x \in hit : TRUE
                  IN  [escalate |-> TRUE,
                       escalation |->
                           EscalationFile("ok", taskId, e.count,
                                          LastN(e.errors, 3), t)]

\* checkRlmCosts comparing the cumulative total with the limits
checkRlmCosts_ByTotal(ctx, costs) ==
    IF ctx.kind # "ok" \/ costs.kind = "malformed"
    THEN [blocked |-> FALSE, warning |-> FALSE, costs |-> costs,
          wrote |-> FALSE]
    ELSE LET subCalls == ctx.sub_calls
             total == costs.total_sub_calls + subCalls
             pushed == costs.sessions \o <<subCalls>>
             written == RlmCostsFile("ok", total,
                                     LastN(pushed, RLM_SESSIONS_KEPT))
         IN  [blocked |-> total >= RLM_SUB_CALL_LIMIT,
              warning |-> total >= RLM_SUB_CALL_WARNING
                          /\ total < RLM_SUB_CALL_LIMIT,
              costs |-> written, wrote |-> TRUE]

\* checkRlmCosts: the result and the rlm-costs.json file it leaves
checkRlmCosts(ctx, costs) ==
    IF ctx.kind # "ok" \/ costs.kind = "malformed"
    THEN [blocked |-> FALSE, warning |-> FALSE, costs |-> costs,
          wrote |-> FALSE]
    ELSE LET subCalls == ctx.sub_calls
             pushed == costs.sessions \o <<subCalls>>
             written == RlmCostsFile("ok", costs.total_sub_calls + subCalls,
                                     LastN(pushed, RLM_SESSIONS_KEPT))
         IN  [blocked |-> subCalls >= RLM_SUB_CALL_LIMIT,
              warning |-> subCalls >= RLM_SUB_CALL_WARNING
                          /\ subCalls < RLM_SUB_CALL_LIMIT,
              costs |-> written, wrote |-> TRUE]

\* checkValidationErrors: only the errors of the last hour count
checkValidationErrors(vs, t) ==
    IF vs.kind # "ok" THEN [ok |-> TRUE, errorCount |-> 0]
    ELSE LET recentErrors ==
                 SelectSeqBy(vs.errors,
                     {e \in Range(vs.errors) :
                         e.timestamp > t - VALIDATION_RECENT_MS})
         IN  [ok |-> recentErrors = <<>>, errorCount |-> Len(recentErrors)]

\* readState: null (kind # "ok") for a missing or unparseable file
readState(f) == f.state

\* getPhasePrompt: the directive of the phase, "none" for null
PromptPhases == {"PLAN", "BUILD", "REVIEW", "FIX", "SHIP"}
\* getPhasePrompt with the FIX entry left out of the table
getPhasePrompt_NoFix(st) ==
    IF st.phase \in PromptPhases \ {"FIX"} THEN st.phase ELSE "none"

getPhasePrompt(st) ==
    IF st.phase \in PromptPhases THEN st.phase ELSE "none"

\* acquireLock refusing a lock whose age equals the timeout
acquireLock_Lenient(lk, pid, t) ==
    IF lk.kind = "malformed"
    THEN [acquired |-> TRUE, holder |-> 0, age |-> 0, lock |-> lk]
    ELSE IF lk.kind = "ok" /\ t - lk.acquiredAt <= LOCK_TIMEOUT_MS
    THEN [acquired |-> FALSE, holder |-> lk.agentId,
          age |-> t - lk.acquiredAt, lock |-> lk]
    ELSE [acquired |-> TRUE, holder |-> 0, age |-> 0,
          lock |-> LockFile("ok", pid, t)]

\* acquireLock: what it returns and the lock file it leaves.  A lock that
\* does not parse throws inside the try block, and the catch returns
\* acquired without writing.
acquireLock(lk, pid, t) ==
    IF lk.kind = "malformed"
    THEN [acquired |-> TRUE, holder |-> 0, age |-> 0, lock |-> lk]
    ELSE IF lk.kind = "ok" /\ t - lk.acquiredAt < LOCK_TIMEOUT_MS
    THEN [acquired |-> FALSE, holder |-> lk.agentId,
          age |-> t - lk.acquiredAt, lock |-> lk]
    ELSE [acquired |-> TRUE, holder |-> 0, age |-> 0,
          lock |-> LockFile("ok", pid, t)]

\* releaseLock with the test of lock.agentId inverted
releaseLock_Other(lk, pid) ==
    IF lk.kind = "ok" /\ lk.agentId # pid THEN NoLock("missing") ELSE lk

\* releaseLock without the test of lock.agentId
releaseLock_Any(lk, pid) ==
    IF lk.kind = "ok" THEN NoLock("missing") ELSE lk

\* releaseLock: unlink the lock when it names this process
releaseLock(lk, pid) ==
    IF lk.kind = "ok" /\ lk.agentId = pid THEN NoLock("missing") ELSE lk

-----------------------------------------------------------------------------
(* main: one evaluation.  Each stage gives the files it leaves and the     *)
(* decision: code ALLOW / BLOCK / ESCALATE, the reason, the process exit   *)
(* code, the directive printed (the phase whose prompt is printed, or      *)
(* "none"), the task named, whether the cost warning was printed and       *)
(* whether the stale notice was printed.                                   *)

Decision(code, reason, exit, directive, task, warning, stale) ==
    [code |-> code, reason |-> reason, exit |-> exit,
     directive |-> directive, task |-> task, warning |-> warning,
     stale |-> stale]
NoDecision == Decision("NONE", "", -1, "none", "", FALSE, FALSE)

Exit(f, code, reason, exit, directive, task, warning, stale) ==
    [files |-> f,
     out |-> Decision(code, reason, exit, directive, task, warning, stale)]

\* lines 868-898: the persistent tasks, then the exit
BacklogStage(f, t, pid, warning, stale) ==
    LET pendingTasks == getPendingTasks(f.tasksData, t)
    IN  IF pendingTasks # <<>>
        THEN LET current == currentTask(pendingTasks)
                 escCheck == checkUserEscalation(f.failures, f.escalation,
                                                 current.id, t)
                 f1 == [f EXCEPT !.escalation = escCheck.escalation,
                                 !.markerWrites =
                                     IF escCheck.escalate THEN @ + 1 ELSE @]
             IN  IF escCheck.escalate
                 THEN Exit(f1, "ESCALATE", "EscalationRequired", 2, "none",
                           current.id, warning, stale)
                 ELSE Exit(f1, "BLOCK", "TasksRemaining", 2, "none",
                           current.id, warning, stale)
        ELSE Exit([f EXCEPT !.lock = releaseLock(f.lock, pid)],
                  "ALLOW", "ExitAllowed", 0, "none", "", warning, stale)

\* state.phase = ...; state.complete = false; writeFileSync(STATE_FILE)
Revert(f, t, phase) ==
    [f EXCEPT !.state = [@ EXCEPT !.phase = phase, !.complete = FALSE],
              !.stateMtime = t, !.stateWrites = @ + 1]

\* completion verification with the tests checked before the validation
\* errors
VerifyStage_TestsFirst(f, t, pid, warning, stale) ==
    LET st == f.state
    IN  IF st.kind = "ok"
           /\ (st.complete \/ st.phase = "COMPLETE" \/ st.phase = "SHIP")
        THEN IF ~verifyTestResults(f.testResults).valid
             THEN Exit(Revert(f, t, "REVIEW"), "BLOCK", "TestsUnverified", 2,
                       "none", "", warning, stale)
             ELSE IF ~checkValidationErrors(f.validationState, t).ok
             THEN Exit(Revert(f, t, "FIX"), "BLOCK", "ValidationErrors", 2,
                       "none", "", warning, stale)
             ELSE IF ~verifyGitResults(f.gitResults).skip
                     /\ ~verifyGitResults(f.gitResults).valid
             THEN Exit(Revert(f, t, "REVIEW"), "BLOCK", "GitIncomplete", 2,
                       "none", "", warning, stale)
             ELSE BacklogStage(f, t, pid, warning, stale)
        ELSE BacklogStage(f, t, pid, warning, stale)

\* lines 816-866: completion verification
\* VerifyStage letting a stale state past the verification
VerifyStage_StaleSkips(f, t, pid, warning, stale) ==
    LET st == f.state
    IN  IF st.kind = "ok" /\ ~isStateStale(f, t)
           /\ (st.complete \/ st.phase = "COMPLETE" \/ st.phase = "SHIP")
        THEN IF ~checkValidationErrors(f.validationState, t).ok
             THEN Exit(Revert(f, t, "FIX"), "BLOCK", "ValidationErrors", 2,
                       "none", "", warning, stale)
             ELSE IF ~verifyTestResults(f.testResults).valid
             THEN Exit(Revert(f, t, "REVIEW"), "BLOCK", "TestsUnverified", 2,
                       "none", "", warning, stale)
             ELSE IF ~verifyGitResults(f.gitResults).skip
                     /\ ~verifyGitResults(f.gitResults).valid
             THEN Exit(Revert(f, t, "REVIEW"), "BLOCK", "GitIncomplete", 2,
                       "none", "", warning, stale)
             ELSE BacklogStage(f, t, pid, warning, stale)
        ELSE BacklogStage(f, t, pid, warning, stale)

VerifyStage(f, t, pid, warning, stale) ==
    LET st == f.state
    IN  IF st.kind = "ok"
           /\ (st.complete \/ st.phase = "COMPLETE" \/ st.phase = "SHIP")
        THEN IF ~checkValidationErrors(f.validationState, t).ok
             THEN Exit(Revert(f, t, "FIX"), "BLOCK", "ValidationErrors", 2,
                       "none", "", warning, stale)
             ELSE IF ~verifyTestResults(f.testResults).valid
             THEN Exit(Revert(f, t, "REVIEW"), "BLOCK", "TestsUnverified", 2,
                       "none", "", warning, stale)
             ELSE IF ~verifyGitResults(f.gitResults).skip
                     /\ ~verifyGitResults(f.gitResults).valid
             THEN Exit(Revert(f, t, "REVIEW"), "BLOCK", "GitIncomplete", 2,
                       "none", "", warning, stale)
             ELSE BacklogStage(f, t, pid, warning, stale)
        ELSE BacklogStage(f, t, pid, warning, stale)

\* LoopStage allowing the exit of a stale session, as its message says
LoopStage_StaleExits(f, t, pid, warning) ==
    LET st == f.state
    IN  IF st.kind = "ok" /\ ~st.complete
           /\ st.phase # "COMPLETE" /\ st.phase # "SHIP"
        THEN IF isStateStale(f, t)
             THEN Exit(f, "ALLOW", "ExitAllowed", 0, "none", "", warning,
                       TRUE)
             ELSE IF checkIterationLimit(st)
             THEN Exit(f, "BLOCK", "IterationLimit", 2, "none", "",
                       warning, FALSE)
             ELSE LET st2 == [st EXCEPT !.iteration = @ + 1,
                                        !.lastActivity = t]
                      f2 == [f EXCEPT !.state = st2, !.stateMtime = t,
                                      !.stateWrites = @ + 1]
                  IN  IF getPhasePrompt(st2) # "none"
                      THEN Exit(f2, "BLOCK", "ContinuePhase", 2,
                                getPhasePrompt(st2), "", warning, FALSE)
                      ELSE VerifyStage(f2, t, pid, warning, FALSE)
        ELSE VerifyStage(f, t, pid, warning, FALSE)

\* lines 787-814: the active loop
LoopStage(f, t, pid, warning) ==
    LET st == f.state
    IN  IF st.kind = "ok" /\ ~st.complete
           /\ st.phase # "COMPLETE" /\ st.phase # "SHIP"
        THEN IF isStateStale(f, t)
             THEN VerifyStage(f, t, pid, warning, TRUE)
             ELSE IF checkIterationLimit(st)
             THEN Exit(f, "BLOCK", "IterationLimit", 2, "none", "",
                       warning, FALSE)
             ELSE LET st2 == [st EXCEPT !.iteration = @ + 1,
                                        !.lastActivity = t]
                      f2 == [f EXCEPT !.state = st2, !.stateMtime = t,
                                      !.stateWrites = @ + 1]
                  IN  IF getPhasePrompt(st2) # "none"
                      THEN Exit(f2, "BLOCK", "ContinuePhase", 2,
                                getPhasePrompt(st2), "", warning, FALSE)
                      ELSE VerifyStage(f2, t, pid, warning, FALSE)
        ELSE VerifyStage(f, t, pid, warning, FALSE)

\* lines 773-785: read the state and the tasks, then the RLM cost check
CostStage(f, t, pid) ==
    LET rlmCheck == checkRlmCosts(f.rlmContext, f.rlmCosts)
        f1 == [f EXCEPT !.rlmCosts = rlmCheck.costs,
                        !.costWrites =
                            IF rlmCheck.wrote THEN @ + 1 ELSE @]
    IN  IF rlmCheck.blocked
        THEN Exit(f1, "BLOCK", "CostLimitReached", 2, "none", "",
                  FALSE, FALSE)
        ELSE LoopStage(f1, t, pid, rlmCheck.warning)

\* shouldForceExit, shouldForceComplete, shouldRalphHandoff: the marker
\* is unlinked when it is found
shouldForceExit(f) == f.forceExit
\* shouldForceComplete testing FORCE_EXIT_FILE
shouldForceComplete_WrongMarker(f) == f.forceExit
shouldForceComplete(f) == f.forceComplete
shouldRalphHandoff(f) == f.ralphHandoff

\* the escalation check of lines 756-771 never finding the marker
escalationPending_Never(f) == FALSE

\* lines 756-771: NEEDS_USER exists and parses
escalationPending(f) == f.escalation.kind = "ok"

\* main with shouldForceExit unlinking FORCE_COMPLETE as well
main_ForceExitClearsAll(f, t, pid) ==
    IF shouldForceExit(f)
    THEN Exit([f EXCEPT !.forceExit = FALSE, !.forceComplete = FALSE],
              "ALLOW", "ForceExit", 0, "none", "", FALSE, FALSE)
    ELSE IF shouldForceComplete(f)
    THEN Exit([f EXCEPT !.forceComplete = FALSE], "ALLOW", "ForceComplete",
              0, "none", "", FALSE, FALSE)
    ELSE IF shouldRalphHandoff(f)
    THEN Exit([f EXCEPT !.ralphHandoff = FALSE], "ALLOW", "RalphHandoff", 0,
              "none", "", FALSE, FALSE)
    ELSE IF escalationPending(f)
    THEN Exit(f, "ESCALATE", "EscalationPending", 2, "none",
              f.escalation.taskId, FALSE, FALSE)
    ELSE CostStage(f, t, pid)

\* main
main(f, t, pid) ==
    IF shouldForceExit(f)
    THEN Exit([f EXCEPT !.forceExit = FALSE], "ALLOW", "ForceExit", 0,
              "none", "", FALSE, FALSE)
    ELSE IF shouldForceComplete(f)
    THEN Exit([f EXCEPT !.forceComplete = FALSE], "ALLOW", "ForceComplete",
              0, "none", "", FALSE, FALSE)
    ELSE IF shouldRalphHandoff(f)
    THEN Exit([f EXCEPT !.ralphHandoff = FALSE], "ALLOW", "RalphHandoff", 0,
              "none", "", FALSE, FALSE)
    ELSE IF escalationPending(f)
    THEN Exit(f, "ESCALATE", "EscalationPending", 2, "none",
              f.escalation.taskId, FALSE, FALSE)
    ELSE CostStage(f, t, pid)

-----------------------------------------------------------------------------
(* The calls other than main: what was called, by whom, and the value      *)
(* returned.                                                               *)

Call(op, pid, task, acquired, holder, age, count, escalate) ==
    [op |-> op, pid |-> pid, task |-> task, acquired |-> acquired,
     holder |-> holder, age |-> age, count |-> count, escalate |-> escalate]
NoCall == Call("none", 0, "", FALSE, 0, 0, 0, FALSE)

\* the processes that call the lock and the failure log
Workers == {1, 2}
\* a trackFailure call between its read and its write of failures.json
Tracking(active, task, error, read) ==
    [active |-> active, task |-> task, error |-> error, read |-> read]
Idle == [w \in Workers |-> Tracking(FALSE, "", 0, NoFailures("missing"))]
\* a worker inside a call whose file operations are separate steps: the
\* step it stands before, the records it has read, what the call returned
\* and when
Position(at, lockSeen, stateSeen, got, since) ==
    [at |-> at, lock |-> lockSeen, state |-> stateSeen, got |-> got,
     since |-> since]
AtRest == Position("", NoLock("missing"), NoState("missing"), "", 0)
Resting == [w \in Workers |-> AtRest]

-----------------------------------------------------------------------------
(* The inputs explored.                                                    *)

\* the maxIterations of the sessions explored
MaxIter == 2
\* evaluations stop once iteration has passed this cap
IterCap == 3
\* evaluations stop once rlm-costs.json holds more than this many entries
MaxCostRuns == 1
\* how many times the clock is advanced
MaxTicks == 1

Pids == {1}

\* the time of the initial state, and ages in minutes
StartTime == 0
EightHours == 8 * MINUTES_PER_HOUR
NineHours == 9 * MINUTES_PER_HOUR
TwoHours == 2 * MINUTES_PER_HOUR
TwentyFiveHours == 25 * MINUTES_PER_HOUR

AllPhases == Phases \cup {UnlistedPhase}

\* <<iteration, maxIterations>>; maxIterations 0 is an absent or zero field
IterationPairs ==
    {<<0, 0>>, <<IterCap, 0>>} \cup {<<i, MaxIter>> : i \in 0 .. MaxIter + 1}

\* <<age of the file, age of lastActivity>>: lastActivity is never later
\* than the write that stored it
StateAges ==
    {<<0, 0>>, <<0, NineHours>>, <<EightHours, EightHours>>,
     <<NineHours, NineHours>>}

\* <<state.json, its modification time>>
StateValues ==
    {<<NoState("missing"), StartTime>>, <<NoState("malformed"), StartTime>>}
    \cup
    {<<StateFile("ok", ph, p[1], p[2], c, StartTime - a[2]),
       StartTime - a[1]>> :
        ph \in AllPhases, p \in IterationPairs, c \in BOOLEAN,
        a \in StateAges}

PassedCat == Cat(TRUE, TRUE, TRUE)
AllTestsPassed ==
    TestFile("ok", PassedCat, PassedCat, PassedCat, PassedCat, TRUE)
LintFailed ==
    TestFile("ok", PassedCat, PassedCat, Cat(TRUE, TRUE, FALSE), PassedCat,
             FALSE)
TestValues == {AllTestsPassed, LintFailed}

GitDone ==
    GitFile("ok", TRUE, TRUE, TRUE, TRUE, TRUE, TRUE, "true", "true", "true")
GitNoPR ==
    GitFile("ok", TRUE, TRUE, FALSE, TRUE, TRUE, FALSE, "true", "absent",
            "absent")
GitValues == {GitDone, GitNoPR}

FreshError ==
    ValidationFile("ok", <<VError("a.json", "Invalid JSON", StartTime)>>, 1)
OldError ==
    ValidationFile("ok",
        <<VError("a.json", "Invalid JSON", StartTime - TwoHours)>>, 1)
ValidationValues ==
    {NoValidation("missing"), ValidationFile("ok", <<>>, 1), FreshError,
     OldError}

\* <<persistent-tasks.json, failures.json>>
NoBacklog == <<NoTasks("missing"), NoFailures("missing")>>
DoneOrStaleBacklog ==
    <<TasksFile("ok", 0,
          <<Task("T1", "completed", StartTime),
            Task("T2", "pending", StartTime - TwentyFiveHours)>>),
      NoFailures("missing")>>
PendingBacklog(count) ==
    <<TasksFile("ok", 0, <<Task("T1", "pending", StartTime)>>),
      FailureFile("ok",
          {FailureEntry("T1", count, [i \in 1 .. count |-> i], StartTime)})>>
BacklogValues ==
    {NoBacklog, DoneOrStaleBacklog,
     PendingBacklog(MAX_CONSECUTIVE_FAILURES - 1),
     PendingBacklog(MAX_CONSECUTIVE_FAILURES)}

\* <<rlm-context.json, rlm-costs.json>>
SubCallValues ==
    {RLM_SUB_CALL_WARNING - 1, RLM_SUB_CALL_WARNING, RLM_SUB_CALL_LIMIT - 1,
     RLM_SUB_CALL_LIMIT}
NoCosts == <<RlmContextFile("missing", 0), RlmCostsFile("missing", 0, <<>>)>>
CostValues ==
    {NoCosts,
     <<RlmContextFile("malformed", 0), RlmCostsFile("missing", 0, <<>>)>>,
     <<RlmContextFile("ok", RLM_SUB_CALL_LIMIT),
       RlmCostsFile("malformed", 0, <<>>)>>}
    \cup {<<RlmContextFile("ok", n), RlmCostsFile("missing", 0, <<>>)>> :
             n \in SubCallValues}

EscalationValues ==
    {NoEscalation("missing"), NoEscalation("malformed"),
     EscalationFile("ok", "T1", 3, <<1, 2, 3>>, StartTime)}

\* The sessions and records explored together with markers and with cost
\* records: one of each class the stages of main tell apart.
CoarseStates ==
    {v \in StateValues :
        \/ v[1].kind # "ok"
        \/ /\ v[1].phase \in {"BUILD", "SHIP", "CANCELLED"}
           /\ <<v[1].iteration, v[1].maxIterations>> = <<MaxIter, MaxIter>>
           /\ v[2] = v[1].lastActivity}
CoarseTests == TestValues
CoarseGit == {GitDone}
CoarseValidation == {NoValidation("missing"), FreshError}
CoarseBacklog ==
    {NoBacklog, PendingBacklog(MAX_CONSECUTIVE_FAILURES - 1)}
CoarseCosts ==
    {NoCosts, <<RlmContextFile("ok", RLM_SUB_CALL_LIMIT),
                RlmCostsFile("missing", 0, <<>>)>>}

\* every session and record, with no marker and no cost record
InitGate ==
    /\ forceExit = FALSE /\ forceComplete = FALSE /\ ralphHandoff = FALSE
    /\ escalation = NoEscalation("missing")
    /\ \E v \in StateValues : state = v[1] /\ stateMtime = v[2]
    /\ testResults \in TestValues
    /\ gitResults \in GitValues
    /\ validationState \in ValidationValues
    /\ \E b \in BacklogValues : tasksData = b[1] /\ failures = b[2]
    /\ rlmContext = NoCosts[1] /\ rlmCosts = NoCosts[2]

\* every combination of markers, with the coarse sessions and records
InitMarkers ==
    /\ forceExit \in BOOLEAN
    /\ forceComplete \in BOOLEAN
    /\ ralphHandoff \in BOOLEAN
    /\ escalation \in EscalationValues
    /\ \E v \in CoarseStates : state = v[1] /\ stateMtime = v[2]
    /\ testResults \in CoarseTests
    /\ gitResults \in CoarseGit
    /\ validationState \in CoarseValidation
    /\ \E b \in CoarseBacklog : tasksData = b[1] /\ failures = b[2]
    /\ \E c \in CoarseCosts : rlmContext = c[1] /\ rlmCosts = c[2]

\* every cost record, with the coarse sessions and records
InitCosts ==
    /\ forceExit = FALSE /\ forceComplete = FALSE /\ ralphHandoff = FALSE
    /\ escalation = NoEscalation("missing")
    /\ \E v \in CoarseStates : state = v[1] /\ stateMtime = v[2]
    /\ testResults \in CoarseTests
    /\ gitResults \in CoarseGit
    /\ validationState \in CoarseValidation
    /\ \E b \in CoarseBacklog : tasksData = b[1] /\ failures = b[2]
    /\ \E c \in CostValues : rlmContext = c[1] /\ rlmCosts = c[2]

Init ==
    /\ now = StartTime
    /\ lock = NoLock("missing")
    /\ stateWrites = 0
    /\ markerWrites = 0
    /\ costWrites = 0
    /\ tracking = Idle
    /\ proc = Resting
    /\ ret = NoCall
    /\ (InitGate \/ InitMarkers \/ InitCosts)
    /\ pre = [files |-> Files, now |-> now]
    /\ out = NoDecision
    /\ start = state
    /\ continues = 0

-----------------------------------------------------------------------------
(* One run of the stop hook by process pid.                                *)

Evaluate(pid) ==
    /\ state.iteration <= IterCap
    /\ costWrites <= MaxCostRuns
    /\ LET r == main(Files, now, pid)
       IN  /\ forceExit' = r.files.forceExit
           /\ forceComplete' = r.files.forceComplete
           /\ ralphHandoff' = r.files.ralphHandoff
           /\ escalation' = r.files.escalation
           /\ state' = r.files.state
           /\ stateMtime' = r.files.stateMtime
           /\ testResults' = r.files.testResults
           /\ gitResults' = r.files.gitResults
           /\ validationState' = r.files.validationState
           /\ tasksData' = r.files.tasksData
           /\ failures' = r.files.failures
           /\ rlmContext' = r.files.rlmContext
           /\ rlmCosts' = r.files.rlmCosts
           /\ lock' = r.files.lock
           /\ stateWrites' = r.files.stateWrites
           /\ markerWrites' = r.files.markerWrites
           /\ costWrites' = r.files.costWrites
           /\ out' = r.out
           /\ continues' = IF r.out.reason = "ContinuePhase"
                           THEN continues + 1 ELSE continues
    /\ pre' = [files |-> Files, now |-> now]
    /\ ret' = NoCall
    /\ UNCHANGED <<now, start, tracking, proc>>

\* Nine hours pass with nothing written.
Tick ==
    /\ now + NineHours <= StartTime + MaxTicks * NineHours
    /\ now' = now + NineHours
    /\ UNCHANGED <<forceExit, forceComplete, ralphHandoff, escalation, state,
                   stateMtime, testResults, gitResults, validationState,
                   tasksData, failures, rlmContext, rlmCosts, lock,
                   stateWrites, markerWrites, costWrites, tracking, proc,
                   ret, pre, out, start, continues>>

Next ==
    \/ \E pid \in Pids : Evaluate(pid)
    \/ Tick

Spec == Init /\ [][Next]_vars

-----------------------------------------------------------------------------
(* The completion gate, the backlog, the lock and unreadable records,      *)
(* explored record by record: the same hook started from other directories.*)

\* the longest backlog explored
MaxTasks == 2

\* sessions that reach completion verification, fresh or nine hours old
VerifySessions ==
    {v \in StateValues :
        /\ v[1].kind = "ok"
        /\ v[1].complete \/ v[1].phase \in {"COMPLETE", "SHIP"}
        /\ <<v[1].iteration, v[1].maxIterations>> = <<MaxIter, MaxIter>>
        /\ v[2] = v[1].lastActivity
        /\ v[2] \in {StartTime, StartTime - NineHours}}
FreshVerifySessions == {v \in VerifySessions : v[2] = StartTime}

\* a category that is absent, not run, failed or passed
CatValues ==
    {Cat(FALSE, FALSE, FALSE), Cat(TRUE, FALSE, TRUE), Cat(TRUE, TRUE, FALSE),
     PassedCat}
AllTestValues ==
    {NoTests("missing"), NoTests("malformed")}
    \cup
    {TestFile("ok", c[1], c[2], c[3], c[4], a) :
        c \in CatValues \X CatValues \X CatValues \X CatValues,
        a \in BOOLEAN}

Flags == {"true", "false", "absent"}
AllGitValues ==
    {NoGit("missing"), NoGit("malformed")}
    \cup
    {GitFile("ok", b[1], b[2], b[3], b[4], b[5], b[6], e[1], e[2], e[3]) :
        b \in BOOLEAN \X BOOLEAN \X BOOLEAN \X BOOLEAN \X BOOLEAN \X BOOLEAN,
        e \in Flags \X Flags \X Flags}

\* every test record, on the fresh sessions
InitTests ==
    /\ \E v \in FreshVerifySessions : state = v[1] /\ stateMtime = v[2]
    /\ testResults \in AllTestValues
    /\ gitResults = GitDone
    /\ validationState = NoValidation("missing")
    /\ tasksData = NoBacklog[1] /\ failures = NoBacklog[2]

\* the checks of completion verification failing together
InitOrder ==
    /\ \E v \in VerifySessions : state = v[1] /\ stateMtime = v[2]
    /\ testResults \in
           {AllTestsPassed, LintFailed, NoTests("missing"),
            NoTests("malformed")}
    /\ gitResults \in {GitDone, GitNoPR, NoGit("missing")}
    /\ validationState \in ValidationValues \cup {NoValidation("malformed")}
    /\ \E b \in CoarseBacklog : tasksData = b[1] /\ failures = b[2]

GitSessions ==
    {v \in FreshVerifySessions :
        \/ v[1].phase = "SHIP" /\ v[1].complete
        \/ v[1].phase = "BUILD"
        \/ v[1].phase = "COMPLETE" /\ ~v[1].complete}

\* every git record
InitGit ==
    /\ \E v \in GitSessions : state = v[1] /\ stateMtime = v[2]
    /\ testResults = AllTestsPassed
    /\ gitResults \in AllGitValues
    /\ validationState = NoValidation("missing")
    /\ tasksData = NoBacklog[1] /\ failures = NoBacklog[2]

TaskIds == <<"T1", "T2", "T3", "T4">>
TaskStatuses == {"pending", "in_progress", "completed", "blocked"}
\* <<status, age>>: every status fresh, the non-terminal ones also stale
TaskKinds ==
    (TaskStatuses \X {0})
    \cup ({"pending", "in_progress"} \X {TwentyFiveHours})
\* the backlogs of n tasks, the i-th task named TaskIds[i]
TaskLists(n) ==
    {[i \in 1 .. n |-> Task(TaskIds[i], q[i][1], StartTime - q[i][2])] :
        q \in [1 .. n -> TaskKinds]}
AllTaskLists == UNION {TaskLists(n) : n \in 0 .. MaxTasks}
AllTasksValues ==
    {NoTasks("missing"), NoTasks("malformed")}
    \cup
    {TasksFile("ok", h, l) :
        h \in {0, 2 * DEFAULT_TASK_STALE_HOURS}, l \in AllTaskLists}

\* failure counts around the threshold; 0 is a task with no entry
FailureCounts ==
    {0, MAX_CONSECUTIVE_FAILURES - 1, MAX_CONSECUTIVE_FAILURES,
     MAX_CONSECUTIVE_FAILURES + 1}
CountedIds == {"T1", "T2"}
\* every count for T1; none or the threshold for T2
CountValues ==
    {c \in [CountedIds -> FailureCounts] :
        c["T2"] \in {0, MAX_CONSECUTIVE_FAILURES}}
AllFailureValues ==
    {NoFailures("missing"), NoFailures("malformed")}
    \cup
    {FailureFile("ok",
         {FailureEntry(id, c[id], [i \in 1 .. c[id] |-> i], StartTime) :
             id \in {x \in CountedIds : c[x] > 0}}) :
        c \in CountValues}

BacklogSessions ==
    {<<NoState("missing"), StartTime>>,
     <<StateFile("ok", "COMPLETE", MaxIter, MaxIter, TRUE, StartTime),
       StartTime>>,
     <<StateFile("ok", "BUILD", 0, MaxIter, FALSE, StartTime - NineHours),
       StartTime - NineHours>>}

\* every backlog and failure log
InitBacklog ==
    /\ \E v \in BacklogSessions : state = v[1] /\ stateMtime = v[2]
    /\ testResults = AllTestsPassed
    /\ gitResults = GitDone
    /\ validationState = NoValidation("missing")
    /\ tasksData \in AllTasksValues
    /\ failures \in AllFailureValues

LockValues ==
    {NoLock("missing"), NoLock("malformed"),
     LockFile("ok", 1, StartTime), LockFile("ok", 2, StartTime),
     LockFile("ok", 1, StartTime - NineHours)}

\* the records of the three families above carry no marker, no cost record
\* and no lock
InitPlain ==
    /\ forceExit = FALSE /\ forceComplete = FALSE /\ ralphHandoff = FALSE
    /\ escalation = NoEscalation("missing")
    /\ rlmContext = NoCosts[1] /\ rlmCosts = NoCosts[2]
    /\ lock = NoLock("missing")
    /\ (InitTests \/ InitOrder \/ InitGit \/ InitBacklog)

\* every lock, with the coarse sessions, records and markers
InitLock ==
    /\ forceExit \in BOOLEAN
    /\ forceComplete = FALSE /\ ralphHandoff = FALSE
    /\ escalation \in {NoEscalation("missing"), NoEscalation("malformed")}
    /\ \E v \in CoarseStates : state = v[1] /\ stateMtime = v[2]
    /\ testResults \in CoarseTests
    /\ gitResults \in CoarseGit
    /\ validationState \in CoarseValidation
    /\ \E b \in CoarseBacklog : tasksData = b[1] /\ failures = b[2]
    /\ \E c \in CoarseCosts : rlmContext = c[1] /\ rlmCosts = c[2]
    /\ lock \in LockValues

\* each record missing, unreadable and readable
ReadabilityStates ==
    {<<NoState("missing"), StartTime>>, <<NoState("malformed"), StartTime>>,
     <<StateFile("ok", "SHIP", MaxIter, MaxIter, TRUE, StartTime), StartTime>>,
     <<StateFile("ok", "BUILD", MaxIter - 1, MaxIter, FALSE, StartTime),
       StartTime>>}
ReadabilityTests ==
    {NoTests("missing"), NoTests("malformed"), AllTestsPassed, LintFailed}
ReadabilityGit == {NoGit("missing"), NoGit("malformed"), GitDone, GitNoPR}
ReadabilityValidation ==
    {NoValidation("missing"), NoValidation("malformed"), FreshError}
ReadabilityTasks ==
    {NoTasks("missing"), NoTasks("malformed"), PendingBacklog(0)[1]}
ReadabilityFailures ==
    {NoFailures("missing"), NoFailures("malformed"),
     PendingBacklog(MAX_CONSECUTIVE_FAILURES)[2]}
\* <<persistent-tasks.json, failures.json>>: the failure log is read only
\* for a task of the backlog
ReadabilityBacklog ==
    {<<td, NoFailures("missing")>> : td \in ReadabilityTasks}
    \cup {<<PendingBacklog(0)[1], fl>> : fl \in ReadabilityFailures}
ReadabilityContexts ==
    {RlmContextFile("missing", 0), RlmContextFile("malformed", 0),
     RlmContextFile("ok", RLM_SUB_CALL_LIMIT)}
ReadabilityCosts ==
    {RlmCostsFile("missing", 0, <<>>), RlmCostsFile("malformed", 0, <<>>),
     RlmCostsFile("ok", 0, <<>>)}
\* <<rlm-context.json, rlm-costs.json>>: the cost record is read only when
\* the context is there
ReadabilityCostPairs ==
    {<<ctx, RlmCostsFile("missing", 0, <<>>)>> : ctx \in ReadabilityContexts}
    \cup {<<RlmContextFile("ok", RLM_SUB_CALL_LIMIT), c>> :
              c \in ReadabilityCosts}

InitReadability ==
    /\ forceExit = FALSE /\ forceComplete = FALSE /\ ralphHandoff = FALSE
    /\ escalation \in EscalationValues
    /\ \E v \in ReadabilityStates : state = v[1] /\ stateMtime = v[2]
    /\ testResults \in ReadabilityTests
    /\ gitResults \in ReadabilityGit
    /\ validationState \in ReadabilityValidation
    /\ \E b \in ReadabilityBacklog : tasksData = b[1] /\ failures = b[2]
    /\ \E c \in ReadabilityCostPairs : rlmContext = c[1] /\ rlmCosts = c[2]
    /\ lock = NoLock("missing")

\* cost histories one below and at the cap, with totals below and above the
\* limits
LongTotal == 20 * RLM_SUB_CALL_LIMIT
CostHistories ==
    {RlmCostsFile("missing", 0, <<>>), RlmCostsFile("malformed", 0, <<>>),
     RlmCostsFile("ok", 0, <<>>),
     RlmCostsFile("ok", RLM_SESSIONS_KEPT - 1,
                  [i \in 1 .. RLM_SESSIONS_KEPT - 1 |-> i]),
     RlmCostsFile("ok", LongTotal, [i \in 1 .. RLM_SESSIONS_KEPT |-> i])}
CostContexts ==
    {RlmContextFile("missing", 0), RlmContextFile("ok", 0)}
    \cup {RlmContextFile("ok", n) : n \in SubCallValues}

InitCostHistory ==
    /\ forceExit = FALSE /\ forceComplete = FALSE /\ ralphHandoff = FALSE
    /\ escalation = NoEscalation("missing")
    /\ \E v \in CoarseStates : state = v[1] /\ stateMtime = v[2]
    /\ testResults = AllTestsPassed
    /\ gitResults = GitDone
    /\ validationState = NoValidation("missing")
    /\ \E b \in CoarseBacklog : tasksData = b[1] /\ failures = b[2]
    /\ rlmContext \in CostContexts
    /\ rlmCosts \in CostHistories
    /\ lock = NoLock("missing")

InitRecords ==
    /\ now = StartTime
    /\ stateWrites = 0
    /\ markerWrites = 0
    /\ costWrites = 0
    /\ tracking = Idle
    /\ proc = Resting
    /\ ret = NoCall
    /\ (InitPlain \/ InitLock \/ InitReadability \/ InitCostHistory)
    /\ pre = [files |-> Files, now |-> now]
    /\ out = NoDecision
    /\ start = state
    /\ continues = 0

SpecRecords == InitRecords /\ [][Next]_vars

-----------------------------------------------------------------------------
(* The lock manager: acquireLock and releaseLock called by the workers,    *)
(* one call at a time, next to the hook.                                   *)

\* what a call other than main leaves alone
hookVars ==
    <<forceExit, forceComplete, ralphHandoff, state, stateMtime, testResults,
      gitResults, tasksData, rlmContext, rlmCosts, stateWrites, markerWrites,
      costWrites, start, continues, now, proc>>

Acquire(w) ==
    /\ LET r == acquireLock(lock, w, now)
       IN  /\ lock' = r.lock
           /\ ret' = Call("acquireLock", w, "", r.acquired, r.holder, r.age,
                          0, FALSE)
    /\ pre' = [files |-> Files, now |-> now]
    /\ out' = NoDecision
    /\ UNCHANGED <<hookVars, escalation, validationState, failures, tracking>>

Release(w) ==
    /\ lock' = releaseLock(lock, w)
    /\ ret' = Call("releaseLock", w, "", FALSE, 0, 0, 0, FALSE)
    /\ pre' = [files |-> Files, now |-> now]
    /\ out' = NoDecision
    /\ UNCHANGED <<hookVars, escalation, validationState, failures, tracking>>

\* lock ages around the timeout
LockAges == {0, LOCK_TIMEOUT_MS - 1, LOCK_TIMEOUT_MS, LOCK_TIMEOUT_MS + 1}
WorkerLocks ==
    {NoLock("missing"), NoLock("malformed")}
    \cup {LockFile("ok", w, StartTime - a) : w \in Workers, a \in LockAges}

InitLocks ==
    /\ now = StartTime
    /\ forceExit \in BOOLEAN
    /\ forceComplete = FALSE /\ ralphHandoff = FALSE
    /\ escalation = NoEscalation("missing")
    /\ \E v \in BacklogSessions : state = v[1] /\ stateMtime = v[2]
    /\ testResults = AllTestsPassed
    /\ gitResults = GitDone
    /\ validationState = NoValidation("missing")
    /\ \E b \in CoarseBacklog : tasksData = b[1] /\ failures = b[2]
    /\ rlmContext = NoCosts[1] /\ rlmCosts = NoCosts[2]
    /\ lock \in WorkerLocks
    /\ stateWrites = 0
    /\ markerWrites = 0
    /\ costWrites = 0
    /\ tracking = Idle
    /\ proc = Resting
    /\ ret = NoCall
    /\ pre = [files |-> Files, now |-> now]
    /\ out = NoDecision
    /\ start = state
    /\ continues = 0

NextLocks ==
    \/ \E pid \in Pids : Evaluate(pid)
    \/ Tick
    \/ \E w \in Workers : Acquire(w)
    \/ \E w \in Workers : Release(w)

SpecLocks == InitLocks /\ [][NextLocks]_vars

-----------------------------------------------------------------------------
(* The escalation manager: trackFailure and checkUserEscalation called by  *)
(* the workers next to the hook.  trackFailure reads failures.json and     *)
(* writes it back in two steps, and other processes run in between.        *)

\* trackFailure calls stop once failures.json holds this many failures
MaxFailures == 4
\* direct checkUserEscalation calls stop after this many marker writes
MaxMarkerWrites == 2

BacklogIds == {"T1", "T2"}
RECURSIVE SumCounts(_)
SumCounts(log) ==
    IF log = {} THEN 0
    ELSE LET e == CHOOSE x \in log : TRUE
         IN  e.count + SumCounts(log \ {e})
\* the text of the next failure of a task: its ordinal
NextError(fl, taskId) ==
    IF \E e \in fl.log : e.taskId = taskId
    THEN (CHOOSE e \in fl.log : e.taskId = taskId).count + 1
    ELSE 1

\* lines 341-344: existsSync, readFileSync, JSON.parse
TrackRead(w, taskId) ==
    /\ ~tracking[w].active
    /\ SumCounts(failures.log) < MaxFailures
    /\ IF failures.kind = "malformed"
       THEN /\ ret' = Call("trackFailure", w, taskId, FALSE, 0, 0,
                           trackFailure(failures, taskId, 0, now).count,
                           FALSE)
            /\ UNCHANGED tracking
       ELSE /\ tracking' =
                   [tracking EXCEPT ![w] =
                       Tracking(TRUE, taskId, NextError(failures, taskId),
                                failures)]
            /\ ret' = NoCall
    /\ pre' = [files |-> Files, now |-> now]
    /\ out' = NoDecision
    /\ UNCHANGED <<hookVars, escalation, validationState, failures, lock>>

\* lines 346-359: the update of the entry, writeFileSync and the return
TrackWrite(w) ==
    /\ tracking[w].active
    /\ LET c == tracking[w]
           r == trackFailure(c.read, c.task, c.error, now)
       IN  /\ failures' = r.failures
           /\ ret' = Call("trackFailure", w, c.task, FALSE, 0, 0, r.count,
                          FALSE)
    /\ tracking' = [tracking EXCEPT ![w] = Idle[w]]
    /\ pre' = [files |-> Files, now |-> now]
    /\ out' = NoDecision
    /\ UNCHANGED <<hookVars, escalation, validationState, lock>>

\* checkUserEscalation called for a task
CheckEscalation(taskId) ==
    /\ markerWrites < MaxMarkerWrites
    /\ LET r == checkUserEscalation(failures, escalation, taskId, now)
       IN  /\ escalation' = r.escalation
           /\ markerWrites' = IF r.escalate THEN markerWrites + 1
                              ELSE markerWrites
           /\ ret' = Call("checkUserEscalation", 0, taskId, FALSE, 0, 0, 0,
                          r.escalate)
    /\ pre' = [files |-> Files, now |-> now]
    /\ out' = NoDecision
    /\ UNCHANGED <<forceExit, forceComplete, ralphHandoff, state, stateMtime,
                   testResults, gitResults, tasksData, rlmContext, rlmCosts,
                   stateWrites, costWrites, start, continues, now,
                   validationState, failures, lock, tracking, proc>>

TwoTasks ==
    TasksFile("ok", 0,
        <<Task("T1", "pending", StartTime), Task("T2", "pending", StartTime)>>)
FailureLogs ==
    {NoFailures("missing"), NoFailures("malformed"),
     PendingBacklog(MAX_CONSECUTIVE_FAILURES - 1)[2],
     PendingBacklog(MAX_CONSECUTIVE_FAILURES)[2],
     PendingBacklog(MAX_CONSECUTIVE_FAILURES + 1)[2]}

\* <<FORCE_EXIT, NEEDS_USER, failures.json>>: every failure log with no
\* marker, and the markers with the log at the threshold
FailureInputs ==
    {<<FALSE, NoEscalation("missing"), fl>> : fl \in FailureLogs}
    \cup
    {<<fe, esc, PendingBacklog(MAX_CONSECUTIVE_FAILURES)[2]>> :
        fe \in BOOLEAN, esc \in EscalationValues \ {NoEscalation("missing")}}

InitFailures ==
    /\ now = StartTime
    /\ \E i \in FailureInputs :
          forceExit = i[1] /\ escalation = i[2] /\ failures = i[3]
    /\ forceComplete = FALSE /\ ralphHandoff = FALSE
    /\ state = NoState("missing") /\ stateMtime = StartTime
    /\ testResults = AllTestsPassed
    /\ gitResults = GitDone
    /\ validationState = NoValidation("missing")
    /\ tasksData = TwoTasks
    /\ rlmContext = NoCosts[1] /\ rlmCosts = NoCosts[2]
    /\ lock = NoLock("missing")
    /\ stateWrites = 0
    /\ markerWrites = 0
    /\ costWrites = 0
    /\ tracking = Idle
    /\ proc = Resting
    /\ ret = NoCall
    /\ pre = [files |-> Files, now |-> now]
    /\ out = NoDecision
    /\ start = state
    /\ continues = 0

NextFailures ==
    \/ \E pid \in Pids : Evaluate(pid)
    \/ Tick
    \/ \E w \in Workers, id \in BacklogIds : TrackRead(w, id)
    \/ \E w \in Workers : TrackWrite(w)
    \/ \E id \in BacklogIds : CheckEscalation(id)

SpecFailures == InitFailures /\ [][NextFailures]_vars

(* Every operation on the marker files together: the hook, the lock        *)
(* manager of two workers and the escalation manager of one, over every    *)
(* failure log and every marker.                                           *)
InitManagers ==
    /\ now = StartTime
    /\ forceExit \in BOOLEAN
    /\ escalation \in EscalationValues
    /\ failures \in FailureLogs
    /\ forceComplete = FALSE /\ ralphHandoff = FALSE
    /\ state = NoState("missing") /\ stateMtime = StartTime
    /\ testResults = AllTestsPassed
    /\ gitResults = GitDone
    /\ validationState = NoValidation("missing")
    /\ tasksData = TwoTasks
    /\ rlmContext = NoCosts[1] /\ rlmCosts = NoCosts[2]
    /\ lock = NoLock("missing")
    /\ stateWrites = 0
    /\ markerWrites = 0
    /\ costWrites = 0
    /\ tracking = Idle
    /\ proc = Resting
    /\ ret = NoCall
    /\ pre = [files |-> Files, now |-> now]
    /\ out = NoDecision
    /\ start = state
    /\ continues = 0

NextManagers ==
    \/ \E pid \in Pids : Evaluate(pid)
    \/ Tick
    \/ \E w \in Workers : Acquire(w)
    \/ \E w \in Workers : Release(w)
    \/ \E id \in BacklogIds : TrackRead(1, id)
    \/ TrackWrite(1)
    \/ \E id \in BacklogIds : CheckEscalation(id)

SpecManagers == InitManagers /\ [][NextManagers]_vars

-----------------------------------------------------------------------------
(* The post-edit validator (post-tool-validator.js), which writes the      *)
(* validation-state.json that the stop hook reads.  An error entry keeps   *)
(* the path of the file, the message and the time it was recorded.         *)

VALIDATION_ERRORS_KEPT == 50

\* loadValidationState: the empty state for a missing or unparseable file
loadValidationState(vs) ==
    IF vs.kind = "ok" THEN vs ELSE ValidationFile("ok", <<>>, 0)

\* trackError without the slice that keeps the last 50
trackError_Uncapped(vs, filePath, message, t) ==
    LET entry == VError(filePath, message, t)
        same == {i \in DOMAIN vs.errors :
                    /\ vs.errors[i].file = filePath
                    /\ vs.errors[i].message = message}
        existing == IF same = {} THEN 0
                    ELSE CHOOSE i \in same : \A j \in same : i <= j
        errors == IF existing > 0
                  THEN [vs.errors EXCEPT ![existing] = entry]
                  ELSE Append(vs.errors, entry)
    IN  [vs EXCEPT !.errors = errors]

\* trackError: an entry with the same path and message is replaced where it
\* stands, a new one is pushed; the last 50 are kept
trackError(vs, filePath, message, t) ==
    LET entry == VError(filePath, message, t)
        same == {i \in DOMAIN vs.errors :
                    /\ vs.errors[i].file = filePath
                    /\ vs.errors[i].message = message}
        existing == IF same = {} THEN 0
                    ELSE CHOOSE i \in same : \A j \in same : i <= j
        errors == IF existing > 0
                  THEN [vs.errors EXCEPT ![existing] = entry]
                  ELSE Append(vs.errors, entry)
    IN  [vs EXCEPT !.errors = LastN(errors, VALIDATION_ERRORS_KEPT)]

RECURSIVE trackErrors(_, _, _, _)
\* the loop of main over result.errors
trackErrors(vs, filePath, messages, t) ==
    IF messages = <<>> THEN vs
    ELSE trackErrors(trackError(vs, filePath, Head(messages), t), filePath,
                     Tail(messages), t)

\* clearFileErrors: the entries of the file are filtered out
clearFileErrors(vs, filePath) ==
    [vs EXCEPT !.errors =
        SelectSeqBy(vs.errors, {e \in Range(vs.errors) : e.file # filePath})]

\* the result of validate(filePath)
ValidationResult(skipped, errors) == [skipped |-> skipped, errors |-> errors]

\* main of the validator for an Edit or Write of an existing file: the file
\* it leaves.  A skipped file leaves it as it was, the count unsaved.
postToolValidator(vs, filePath, result, t) ==
    LET loaded == loadValidationState(vs)
        counted == [loaded EXCEPT !.filesValidated = @ + 1]
    IN  IF result.skipped THEN vs
        ELSE IF Len(result.errors) > 0
        THEN trackErrors(counted, filePath, result.errors, t)
        ELSE clearFileErrors(counted, filePath)

\* the validations explored
MaxValidated == 3
EditedFiles == {"a.json", "b.js"}
ValidationResults ==
    {ValidationResult(TRUE, <<>>), ValidationResult(FALSE, <<>>),
     ValidationResult(FALSE, <<"Invalid JSON">>),
     ValidationResult(FALSE, <<"Invalid JSON", "Syntax error">>)}

Validate(filePath, result) ==
    /\ loadValidationState(validationState).filesValidated < MaxValidated
    /\ validationState' =
           postToolValidator(validationState, filePath, result, now)
    /\ ret' = Call("validate", 0, filePath, FALSE, 0, 0, Len(result.errors),
                   result.skipped)
    /\ pre' = [files |-> Files, now |-> now]
    /\ out' = NoDecision
    /\ UNCHANGED <<hookVars, escalation, lock, failures, tracking>>

\* sessions in completion and one in the loop, no validation yet
ValidatorSessions ==
    {StateFile("ok", "SHIP", 0, MaxIter, FALSE, StartTime),
     StateFile("ok", "COMPLETE", 0, MaxIter, TRUE, StartTime),
     StateFile("ok", "BUILD", 0, MaxIter, TRUE, StartTime),
     StateFile("ok", "BUILD", 0, MaxIter, FALSE, StartTime)}

InitValidator ==
    /\ now = StartTime
    /\ forceExit \in BOOLEAN
    /\ forceComplete = FALSE /\ ralphHandoff = FALSE
    /\ escalation = NoEscalation("missing")
    /\ state \in ValidatorSessions /\ stateMtime = StartTime
    /\ testResults = AllTestsPassed
    /\ gitResults = GitDone
    /\ validationState \in {NoValidation("missing"),
                            NoValidation("malformed"), NoValidation("ok")}
    /\ tasksData = NoTasks("missing") /\ failures = NoFailures("missing")
    /\ rlmContext = NoCosts[1] /\ rlmCosts = NoCosts[2]
    /\ lock = NoLock("missing")
    /\ stateWrites = 0
    /\ markerWrites = 0
    /\ costWrites = 0
    /\ tracking = Idle
    /\ proc = Resting
    /\ ret = NoCall
    /\ pre = [files |-> Files, now |-> now]
    /\ out = NoDecision
    /\ start = state
    /\ continues = 0

NextValidator ==
    \/ \E pid \in Pids : Evaluate(pid)
    \/ Tick
    \/ \E filePath \in EditedFiles, result \in ValidationResults :
          Validate(filePath, result)

SpecValidator == InitValidator /\ [][NextValidator]_vars

-----------------------------------------------------------------------------
(* The cancel command (skills/flow-cleanup.md, skills/cancel-ralph.md):    *)
(* it writes a cancelled state and removes the control files.              *)

\* the state.json the command writes: complete and phase, no counters
CancelledState == StateFile("ok", "CANCELLED", 0, 0, TRUE, 0)

Cancel ==
    /\ stateWrites <= MaxIter
    /\ state' = CancelledState
    /\ stateMtime' = now
    /\ forceExit' = FALSE /\ forceComplete' = FALSE /\ ralphHandoff' = FALSE
    /\ escalation' = NoEscalation("missing")
    /\ ret' = Call("cancel", 0, "", FALSE, 0, 0, 0, FALSE)
    /\ pre' = [files |-> Files, now |-> now]
    /\ out' = NoDecision
    /\ UNCHANGED <<now, testResults, gitResults, validationState, tasksData,
                   failures, rlmContext, rlmCosts, lock, stateWrites,
                   markerWrites, costWrites, tracking, proc, start,
                   continues>>

\* running and finished sessions to cancel
CancelSessions ==
    {NoState("missing"),
     StateFile("ok", "BUILD", 0, MaxIter, FALSE, StartTime),
     StateFile("ok", "REVIEW", MaxIter, MaxIter, FALSE, StartTime),
     StateFile("ok", "SHIP", 0, MaxIter, FALSE, StartTime)}

InitCancel ==
    /\ now = StartTime
    /\ forceExit \in BOOLEAN
    /\ forceComplete = FALSE /\ ralphHandoff = FALSE
    /\ escalation \in EscalationValues
    /\ state \in CancelSessions /\ stateMtime = StartTime
    /\ testResults \in TestValues
    /\ gitResults \in GitValues
    /\ validationState \in {NoValidation("missing"), FreshError}
    /\ \E b \in {NoBacklog, PendingBacklog(0)} :
          tasksData = b[1] /\ failures = b[2]
    /\ rlmContext = NoCosts[1] /\ rlmCosts = NoCosts[2]
    /\ lock = NoLock("missing")
    /\ stateWrites = 0
    /\ markerWrites = 0
    /\ costWrites = 0
    /\ tracking = Idle
    /\ proc = Resting
    /\ ret = NoCall
    /\ pre = [files |-> Files, now |-> now]
    /\ out = NoDecision
    /\ start = state
    /\ continues = 0

NextCancel ==
    \/ \E pid \in Pids : Evaluate(pid)
    \/ Tick
    \/ Cancel

SpecCancel == InitCancel /\ [][NextCancel]_vars

-----------------------------------------------------------------------------
(* acquireLock step by step: existsSync (line 269), readFileSync and the   *)
(* test of the age (270-276), writeFileSync (284) are separate file        *)
(* operations, and two workers interleave them.                            *)

\* line 269: the existence check
AcquireExists(w) ==
    /\ proc[w].at = "" /\ proc[w].got # "acquired"
    /\ proc' = [proc EXCEPT ![w] =
                   Position(IF lock.kind = "missing" THEN "write" ELSE "read",
                            NoLock("missing"), NoState("missing"), "", 0)]
    /\ ret' = NoCall
    /\ pre' = [files |-> Files, now |-> now]
    /\ out' = NoDecision
    /\ UNCHANGED <<now, forceExit, forceComplete, ralphHandoff, escalation,
                   state, stateMtime, testResults, gitResults,
                   validationState, tasksData, failures, rlmContext,
                   rlmCosts, lock, stateWrites, markerWrites, costWrites,
                   tracking, start, continues>>

\* lines 270-276: the read, the parse and the test of the age; a file that
\* is gone or unparseable by now throws into the catch of line 286
AcquireRead(w) ==
    /\ proc[w].at = "read"
    /\ IF lock.kind # "ok"
       THEN /\ proc' = [proc EXCEPT ![w] =
                           Position("", lock, NoState("missing"), "acquired",
                                    now)]
            /\ ret' = Call("acquireLock", w, "", TRUE, 0, 0, 0, FALSE)
       ELSE IF now - lock.acquiredAt < LOCK_TIMEOUT_MS
       THEN /\ proc' = [proc EXCEPT ![w] =
                           Position("", lock, NoState("missing"), "refused",
                                    now)]
            /\ ret' = Call("acquireLock", w, "", FALSE, lock.agentId,
                           now - lock.acquiredAt, 0, FALSE)
       ELSE /\ proc' = [proc EXCEPT ![w] =
                           Position("write", lock, NoState("missing"), "",
                                    0)]
            /\ ret' = NoCall
    /\ pre' = [files |-> Files, now |-> now]
    /\ out' = NoDecision
    /\ UNCHANGED <<now, forceExit, forceComplete, ralphHandoff, escalation,
                   state, stateMtime, testResults, gitResults,
                   validationState, tasksData, failures, rlmContext,
                   rlmCosts, lock, stateWrites, markerWrites, costWrites,
                   tracking, start, continues>>

\* lines 279-285: the write of the caller's lock and the return
AcquireWrite(w) ==
    /\ proc[w].at = "write"
    /\ lock' = LockFile("ok", w, now)
    /\ proc' = [proc EXCEPT ![w] =
                   Position("", proc[w].lock, NoState("missing"), "acquired",
                            now)]
    /\ ret' = Call("acquireLock", w, "", TRUE, 0, 0, 0, FALSE)
    /\ pre' = [files |-> Files, now |-> now]
    /\ out' = NoDecision
    /\ UNCHANGED <<now, forceExit, forceComplete, ralphHandoff, escalation,
                   state, stateMtime, testResults, gitResults,
                   validationState, tasksData, failures, rlmContext,
                   rlmCosts, stateWrites, markerWrites, costWrites,
                   tracking, start, continues>>

\* a worker that was given the lock releases it
Leave(w) ==
    /\ proc[w].at = "" /\ proc[w].got = "acquired"
    /\ lock' = releaseLock(lock, w)
    /\ proc' = [proc EXCEPT ![w] = AtRest]
    /\ ret' = Call("releaseLock", w, "", FALSE, 0, 0, 0, FALSE)
    /\ pre' = [files |-> Files, now |-> now]
    /\ out' = NoDecision
    /\ UNCHANGED <<now, forceExit, forceComplete, ralphHandoff, escalation,
                   state, stateMtime, testResults, gitResults,
                   validationState, tasksData, failures, rlmContext,
                   rlmCosts, stateWrites, markerWrites, costWrites,
                   tracking, start, continues>>

\* no lock, or a readable lock of a third process, young or timed out
ReadableLocks ==
    {NoLock("missing")}
    \cup {LockFile("ok", 3, StartTime - a) : a \in LockAges}

InitLockSteps ==
    /\ now = StartTime
    /\ forceExit = FALSE /\ forceComplete = FALSE /\ ralphHandoff = FALSE
    /\ escalation = NoEscalation("missing")
    /\ state = NoState("missing") /\ stateMtime = StartTime
    /\ testResults = AllTestsPassed
    /\ gitResults = GitDone
    /\ validationState = NoValidation("missing")
    /\ tasksData = NoTasks("missing") /\ failures = NoFailures("missing")
    /\ rlmContext = NoCosts[1] /\ rlmCosts = NoCosts[2]
    /\ lock \in ReadableLocks
    /\ stateWrites = 0
    /\ markerWrites = 0
    /\ costWrites = 0
    /\ tracking = Idle
    /\ proc = Resting
    /\ ret = NoCall
    /\ pre = [files |-> Files, now |-> now]
    /\ out = NoDecision
    /\ start = state
    /\ continues = 0

NextLockSteps ==
    \/ \E w \in Workers : AcquireExists(w)
    \/ \E w \in Workers : AcquireRead(w)
    \/ \E w \in Workers : AcquireWrite(w)
    \/ \E w \in Workers : Leave(w)
    \/ Tick

SpecLockSteps == InitLockSteps /\ [][NextLockSteps]_vars

-----------------------------------------------------------------------------
(* The evaluation step by step: main reads state.json once (readState,     *)
(* line 773) and writes it later from that copy (line 807), and two hook    *)
(* processes interleave these steps.                                       *)

\* lines 740-773 with no marker in the way: the read of state.json
EvalRead(w) ==
    /\ proc[w].at = ""
    /\ ~shouldForceExit(Files) /\ ~shouldForceComplete(Files)
    /\ ~shouldRalphHandoff(Files) /\ ~escalationPending(Files)
    /\ proc' = [proc EXCEPT ![w] =
                   Position("decide", NoLock("missing"), readState(Files),
                            "", now)]
    /\ ret' = NoCall
    /\ pre' = [files |-> Files, now |-> now]
    /\ out' = NoDecision
    /\ UNCHANGED <<now, forceExit, forceComplete, ralphHandoff, escalation,
                   state, stateMtime, testResults, gitResults,
                   validationState, tasksData, failures, rlmContext,
                   rlmCosts, lock, stateWrites, markerWrites, costWrites,
                   tracking, start, continues>>

\* lines 774-899: the rest of main, deciding and writing from the copy of
\* the state it read
EvalFinish(w) ==
    /\ proc[w].at = "decide"
    /\ LET r == CostStage([Files EXCEPT !.state = proc[w].state], now, w)
       IN  /\ state' = IF r.files.stateWrites = stateWrites THEN state
                       ELSE r.files.state
           /\ stateMtime' = r.files.stateMtime
           /\ escalation' = r.files.escalation
           /\ rlmCosts' = r.files.rlmCosts
           /\ lock' = r.files.lock
           /\ stateWrites' = r.files.stateWrites
           /\ markerWrites' = r.files.markerWrites
           /\ costWrites' = r.files.costWrites
           /\ out' = r.out
           /\ continues' = IF r.out.reason = "ContinuePhase"
                           THEN continues + 1 ELSE continues
    /\ proc' = [proc EXCEPT ![w] = AtRest]
    /\ ret' = NoCall
    /\ pre' = [files |-> Files, now |-> now]
    /\ UNCHANGED <<now, forceExit, forceComplete, ralphHandoff, testResults,
                   gitResults, validationState, tasksData, failures,
                   rlmContext, tracking, start>>

\* sessions in the loop with an iteration budget
LoopSessions ==
    {StateFile("ok", ph, i, MaxIter, FALSE, StartTime) :
        ph \in {"PLAN", "BUILD", "REVIEW", "FIX"}, i \in 0 .. MaxIter}

InitEvalSteps ==
    /\ now = StartTime
    /\ forceExit = FALSE /\ forceComplete = FALSE /\ ralphHandoff = FALSE
    /\ escalation = NoEscalation("missing")
    /\ state \in LoopSessions /\ stateMtime = StartTime
    /\ testResults = AllTestsPassed
    /\ gitResults = GitDone
    /\ validationState = NoValidation("missing")
    /\ tasksData = NoTasks("missing") /\ failures = NoFailures("missing")
    /\ rlmContext = NoCosts[1] /\ rlmCosts = NoCosts[2]
    /\ lock = NoLock("missing")
    /\ stateWrites = 0
    /\ markerWrites = 0
    /\ costWrites = 0
    /\ tracking = Idle
    /\ proc = Resting
    /\ ret = NoCall
    /\ pre = [files |-> Files, now |-> now]
    /\ out = NoDecision
    /\ start = state
    /\ continues = 0

NextEvalSteps ==
    \/ \E w \in Workers : EvalRead(w)
    \/ \E w \in Workers : EvalFinish(w)

SpecEvalSteps == InitEvalSteps /\ [][NextEvalSteps]_vars

-----------------------------------------------------------------------------
(* The override markers step by step: shouldForceExit, shouldForceComplete *)
(* and shouldRalphHandoff test existsSync and then unlink, inside a try    *)
(* whose catch is empty, and return true either way.                       *)

\* the first marker that main finds, "" for none
MarkerFound(f) ==
    IF shouldForceExit(f) THEN "ForceExit"
    ELSE IF shouldForceComplete(f) THEN "ForceComplete"
    ELSE IF shouldRalphHandoff(f) THEN "RalphHandoff"
    ELSE ""

\* lines 630, 638, 650: existsSync finds the marker
MarkerExists(w) ==
    /\ proc[w].at = "" /\ proc[w].got = ""
    /\ MarkerFound(Files) # ""
    /\ proc' = [proc EXCEPT ![w] =
                   Position(MarkerFound(Files), NoLock("missing"),
                            NoState("missing"), "", now)]
    /\ ret' = NoCall
    /\ pre' = [files |-> Files, now |-> now]
    /\ out' = NoDecision
    /\ UNCHANGED <<now, forceExit, forceComplete, ralphHandoff, escalation,
                   state, stateMtime, testResults, gitResults,
                   validationState, tasksData, failures, rlmContext,
                   rlmCosts, lock, stateWrites, markerWrites, costWrites,
                   tracking, start, continues>>

\* lines 631-632, 639-645, 651-652 and the exit of main: the unlink, which
\* may find the file gone, and ALLOW
MarkerUnlink(w) ==
    /\ proc[w].at \in {"ForceExit", "ForceComplete", "RalphHandoff"}
    /\ forceExit' = IF proc[w].at = "ForceExit" THEN FALSE ELSE forceExit
    /\ forceComplete' =
           IF proc[w].at = "ForceComplete" THEN FALSE ELSE forceComplete
    /\ ralphHandoff' =
           IF proc[w].at = "RalphHandoff" THEN FALSE ELSE ralphHandoff
    /\ proc' = [proc EXCEPT ![w] =
                   Position("", NoLock("missing"), NoState("missing"),
                            proc[w].at, now)]
    /\ out' = Decision("ALLOW", proc[w].at, 0, "none", "", FALSE, FALSE)
    /\ ret' = NoCall
    /\ pre' = [files |-> Files, now |-> now]
    /\ UNCHANGED <<now, escalation, state, stateMtime, testResults,
                   gitResults, validationState, tasksData, failures,
                   rlmContext, rlmCosts, lock, stateWrites, markerWrites,
                   costWrites, tracking, start, continues>>

\* <<FORCE_EXIT, FORCE_COMPLETE, RALPH_HANDOFF>>: one marker
OneMarker ==
    {<<TRUE, FALSE, FALSE>>, <<FALSE, TRUE, FALSE>>, <<FALSE, FALSE, TRUE>>}

InitMarkerSteps ==
    /\ now = StartTime
    /\ \E m \in OneMarker :
          forceExit = m[1] /\ forceComplete = m[2] /\ ralphHandoff = m[3]
    /\ escalation = NoEscalation("missing")
    /\ state \in LoopSessions /\ stateMtime = StartTime
    /\ testResults = AllTestsPassed
    /\ gitResults = GitDone
    /\ validationState = NoValidation("missing")
    /\ tasksData = NoTasks("missing") /\ failures = NoFailures("missing")
    /\ rlmContext = NoCosts[1] /\ rlmCosts = NoCosts[2]
    /\ lock = NoLock("missing")
    /\ stateWrites = 0
    /\ markerWrites = 0
    /\ costWrites = 0
    /\ tracking = Idle
    /\ proc = Resting
    /\ ret = NoCall
    /\ pre = [files |-> Files, now |-> now]
    /\ out = NoDecision
    /\ start = state
    /\ continues = 0

NextMarkerSteps ==
    \/ \E w \in Workers : MarkerExists(w)
    \/ \E w \in Workers : MarkerUnlink(w)
    \/ \E w \in Workers : EvalRead(w)
    \/ \E w \in Workers : EvalFinish(w)

SpecMarkerSteps == InitMarkerSteps /\ [][NextMarkerSteps]_vars

-----------------------------------------------------------------------------
(* Runs of the validator alone, from an absent, unreadable or empty        *)
(* validation state and from one that earlier runs filled to the brim.     *)

\* n errors of other files, as n earlier runs left them
EarlierErrors(n) ==
    ValidationFile("ok",
        [i \in 1 .. n |-> VError("gen.js", ToString(i), StartTime)], 0)

RunResults ==
    ValidationResults
    \cup {ValidationResult(FALSE, <<"Invalid JSON", "Invalid JSON">>)}

InitValidatorRuns ==
    /\ now = StartTime
    /\ forceExit = FALSE /\ forceComplete = FALSE /\ ralphHandoff = FALSE
    /\ escalation = NoEscalation("missing")
    /\ state = NoState("missing") /\ stateMtime = StartTime
    /\ testResults = AllTestsPassed
    /\ gitResults = GitDone
    /\ validationState \in
           {NoValidation("missing"), NoValidation("malformed"),
            NoValidation("ok"),
            EarlierErrors(VALIDATION_ERRORS_KEPT - 1),
            EarlierErrors(VALIDATION_ERRORS_KEPT)}
    /\ tasksData = NoTasks("missing") /\ failures = NoFailures("missing")
    /\ rlmContext = NoCosts[1] /\ rlmCosts = NoCosts[2]
    /\ lock = NoLock("missing")
    /\ stateWrites = 0
    /\ markerWrites = 0
    /\ costWrites = 0
    /\ tracking = Idle
    /\ proc = Resting
    /\ ret = NoCall
    /\ pre = [files |-> Files, now |-> now]
    /\ out = NoDecision
    /\ start = state
    /\ continues = 0

NextValidatorRuns ==
    \/ \E filePath \in EditedFiles \cup {"gen.js"}, result \in RunResults :
          Validate(filePath, result)
    \/ Tick

SpecValidatorRuns == InitValidatorRuns /\ [][NextValidatorRuns]_vars

-----------------------------------------------------------------------------
(* The user removes NEEDS_USER, as the block message of main (line 766)    *)
(* asks, and leaves failures.json and the backlog as they are.             *)

RemoveEscalation ==
    /\ escalation.kind # "missing"
    /\ markerWrites < MaxMarkerWrites
    /\ escalation' = NoEscalation("missing")
    /\ ret' = Call("removeEscalation", 0, "", FALSE, 0, 0, 0, FALSE)
    /\ pre' = [files |-> Files, now |-> now]
    /\ out' = NoDecision
    /\ UNCHANGED <<hookVars, lock, validationState, failures, tracking>>

InitEscalated ==
    /\ now = StartTime
    /\ forceExit \in BOOLEAN
    /\ forceComplete = FALSE /\ ralphHandoff = FALSE
    /\ escalation = NoEscalation("missing")
    /\ \E v \in BacklogSessions : state = v[1] /\ stateMtime = v[2]
    /\ testResults = AllTestsPassed
    /\ gitResults = GitDone
    /\ validationState = NoValidation("missing")
    /\ tasksData = TwoTasks
    /\ failures \in FailureLogs
    /\ rlmContext = NoCosts[1] /\ rlmCosts = NoCosts[2]
    /\ lock = NoLock("missing")
    /\ stateWrites = 0
    /\ markerWrites = 0
    /\ costWrites = 0
    /\ tracking = Idle
    /\ proc = Resting
    /\ ret = NoCall
    /\ pre = [files |-> Files, now |-> now]
    /\ out = NoDecision
    /\ start = state
    /\ continues = 0

NextEscalated ==
    \/ \E pid \in Pids : Evaluate(pid)
    \/ Tick
    \/ RemoveEscalation

SpecEscalated == InitEscalated /\ [][NextEscalated]_vars

-----------------------------------------------------------------------------
(* The session-start hook (the script printed in README.md): it cleans up  *)
(* the .deep directory, then reports the pending tasks and exits 0.        *)

DEFAULT_CLEANUP_DAYS == 7
HOURS_PER_DAY == 24
\* the settings explored: cleanup disabled, and the default period
CleanupSettings == {0, DEFAULT_CLEANUP_DAYS}

\* cleanupStaleDeepDirs: whether .deep is removed; dirAge is the age of
\* the directory, looked at when state.json is absent or unreadable
shouldRemove(f, t, maxAgeDays, dirAge) ==
    LET maxAgeMs == maxAgeDays * HOURS_PER_DAY * MINUTES_PER_HOUR
    IN  IF maxAgeDays <= 0 THEN FALSE
        ELSE IF f.state.kind = "ok"
        THEN \/ f.state.complete /\ f.state.phase = "COMPLETE"
             \/ t - f.stateMtime > maxAgeMs
        ELSE dirAge > maxAgeMs

\* main of the session-start hook; the directory is removed with all the
\* records in it.  ret: escalate = the directory was removed, count = the
\* pending tasks reported, holder = the exit code.
SessionStart(maxAgeDays, dirAge) ==
    LET removed == shouldRemove(Files, now, maxAgeDays, dirAge)
        tasksLeft == IF removed THEN NoTasks("missing") ELSE tasksData
        pendingTasks == getPendingTasks(tasksLeft, now)
    IN  /\ IF removed
           THEN /\ state' = NoState("missing")
                /\ forceExit' = FALSE /\ forceComplete' = FALSE
                /\ ralphHandoff' = FALSE
                /\ escalation' = NoEscalation("missing")
                /\ testResults' = NoTests("missing")
                /\ gitResults' = NoGit("missing")
                /\ validationState' = NoValidation("missing")
                /\ tasksData' = NoTasks("missing")
                /\ failures' = NoFailures("missing")
                /\ rlmContext' = RlmContextFile("missing", 0)
                /\ rlmCosts' = RlmCostsFile("missing", 0, <<>>)
                /\ lock' = NoLock("missing")
           ELSE UNCHANGED <<state, forceExit, forceComplete, ralphHandoff,
                            escalation, testResults, gitResults,
                            validationState, tasksData, failures,
                            rlmContext, rlmCosts, lock>>
        /\ ret' = Call("sessionStart", 0, "", FALSE, 0, 0,
                       Len(pendingTasks), removed)
        /\ pre' = [files |-> Files, now |-> now]
        /\ out' = NoDecision
        /\ UNCHANGED <<now, stateMtime, stateWrites, markerWrites,
                       costWrites, tracking, proc, start, continues>>

EightDays == (DEFAULT_CLEANUP_DAYS + 1) * HOURS_PER_DAY * MINUTES_PER_HOUR
\* <<state.json, its mtime>>: finished, running and abandoned sessions
StartSessions ==
    {<<NoState("missing"), StartTime>>,
     <<NoState("malformed"), StartTime>>,
     <<StateFile("ok", "COMPLETE", MaxIter, MaxIter, TRUE, StartTime),
       StartTime>>,
     <<StateFile("ok", "SHIP", MaxIter, MaxIter, TRUE, StartTime),
       StartTime>>,
     <<StateFile("ok", "BUILD", 0, MaxIter, FALSE, StartTime), StartTime>>,
     <<StateFile("ok", "BUILD", 0, MaxIter, FALSE, StartTime - EightDays),
       StartTime - EightDays>>}

InitSessionStart ==
    /\ now = StartTime
    /\ forceExit = FALSE /\ forceComplete = FALSE /\ ralphHandoff = FALSE
    /\ escalation = NoEscalation("missing")
    /\ \E v \in StartSessions : state = v[1] /\ stateMtime = v[2]
    /\ testResults = AllTestsPassed
    /\ gitResults = GitDone
    /\ validationState = NoValidation("missing")
    /\ tasksData \in {NoTasks("missing"), TwoTasks, DoneOrStaleBacklog[1]}
    /\ failures = NoFailures("missing")
    /\ rlmContext = NoCosts[1] /\ rlmCosts = NoCosts[2]
    /\ lock = NoLock("missing")
    /\ stateWrites = 0
    /\ markerWrites = 0
    /\ costWrites = 0
    /\ tracking = Idle
    /\ proc = Resting
    /\ ret = NoCall
    /\ pre = [files |-> Files, now |-> now]
    /\ out = NoDecision
    /\ start = state
    /\ continues = 0

NextSessionStart ==
    \/ \E maxAgeDays \in CleanupSettings, dirAge \in {0, EightDays} :
          SessionStart(maxAgeDays, dirAge)
    \/ \E pid \in Pids : Evaluate(pid)
    \/ Tick

SpecSessionStart == InitSessionStart /\ [][NextSessionStart]_vars

-----------------------------------------------------------------------------
(* What the claims speak of: the last evaluation, the files it found       *)
(* (P, at time T) and the files it left (the variables).                   *)

Evaluated == out.code # "NONE"
P == pre.files
T == pre.now

\* no one-shot marker (FORCE_EXIT, FORCE_COMPLETE, RALPH_HANDOFF) was there
NoOverrideMarker == ~P.forceExit /\ ~P.forceComplete /\ ~P.ralphHandoff
NoEscalationMarker == P.escalation.kind = "missing"
\* the cost record asks for a block
CostLimitHit ==
    P.rlmContext.kind = "ok" /\ P.rlmContext.sub_calls >= RLM_SUB_CALL_LIMIT
\* the evaluation was not stopped by the cost guard
NoCostBlock == out.reason # "CostLimitReached"
SessionExists == P.state.kind = "ok"
InCompletion ==
    P.state.complete \/ P.state.phase \in {"COMPLETE", "SHIP"}
FileAge == T - P.stateMtime
ActivityAge == T - P.state.lastActivity
StateUnwritten == state = P.state /\ stateMtime = P.stateMtime

HasValidationError ==
    P.validationState.kind = "ok" /\ P.validationState.errors # <<>>
TestsAllGreen ==
    /\ P.testResults.kind = "ok"
    /\ \A c \in TestCategories :
          /\ P.testResults[c].has
          /\ P.testResults[c].ran
          /\ P.testResults[c].passed
ToolingPresent ==
    /\ P.gitResults.kind = "ok"
    /\ P.gitResults.isGitRepo
    /\ P.gitResults.hasGhCli
RequiredGitDone ==
    /\ P.gitResults.requirePR # "false" => P.gitResults.prCreated
    /\ P.gitResults.requireCIPass # "false"
       => P.gitResults.ciChecked /\ P.gitResults.ciPassed
    /\ P.gitResults.requireMerge # "false" => P.gitResults.merged
TaskThresholdHours ==
    IF P.tasksData.staleThresholdHours # 0
    THEN P.tasksData.staleThresholdHours ELSE DEFAULT_TASK_STALE_HOURS
\* a non-terminal, non-stale backlog task remains
TaskRemains ==
    /\ P.tasksData.kind = "ok"
    /\ \E i \in DOMAIN P.tasksData.tasks :
          /\ P.tasksData.tasks[i].status \notin {"completed", "blocked"}
          /\ T - P.tasksData.tasks[i].createdAt
             <= TaskThresholdHours * MINUTES_PER_HOUR

-----------------------------------------------------------------------------
\* C1: whenever an evaluation returns ALLOW for an existing session, with no
\* override marker consumed and the session not stale, there is no
\* validation error, every test category ran and passed, every required git
\* step is done when the tooling is present, and no non-terminal non-stale
\* task remains; for every phase and every value of complete.
ClaimC1 ==
    (/\ Evaluated /\ out.code = "ALLOW"
     /\ SessionExists /\ NoOverrideMarker
     /\ FileAge <= STALE_THRESHOLD_MS /\ ActivityAge <= STALE_THRESHOLD_MS)
    => /\ ~HasValidationError
       /\ TestsAllGreen
       /\ ToolingPresent => RequiredGitDone
       /\ ~TaskRemains

\* C2: a force-exit or force-complete marker present at the start of an
\* evaluation gives ALLOW with exit code 0, whatever the other records are.
ClaimC2 ==
    (Evaluated /\ (P.forceExit \/ P.forceComplete))
    => out.code = "ALLOW" /\ out.exit = 0

\* C2 witness: force-complete alone wins over an escalation marker, a cost
\* record at the limit, failing tests, a validation error and a pending task.
WitnessC2 ==
    /\ Evaluated /\ P.forceComplete /\ ~P.forceExit
    /\ P.escalation.kind = "ok"
    /\ CostLimitHit
    /\ ~TestsAllGreen /\ HasValidationError /\ TaskRemains
    /\ out.code = "ALLOW" /\ out.reason = "ForceComplete"

\* C3: an escalation marker present at the start of an evaluation, with no
\* force-exit and no force-complete marker, gives ESCALATE with exit code 2,
\* whatever the marker holds and whatever the other markers and records are.
ClaimC3 ==
    (/\ Evaluated /\ P.escalation.kind # "missing"
     /\ ~P.forceExit /\ ~P.forceComplete)
    => out.code = "ESCALATE" /\ out.exit = 2

\* C4 as stated: iteration >= maxIterations and complete = false, with no
\* escalation marker and no override marker, gives BLOCK(IterationLimit)
\* (read here for the sessions that carry a limit, maxIterations >= 1).
ClaimC4_Original ==
    (/\ Evaluated /\ SessionExists
     /\ P.state.maxIterations >= 1
     /\ P.state.iteration >= P.state.maxIterations /\ ~P.state.complete
     /\ NoEscalationMarker /\ NoOverrideMarker)
    => out.code = "BLOCK" /\ out.reason = "IterationLimit"

\* C4 as amended: the same for a session with maxIterations >= 1, a phase
\* other than SHIP and COMPLETE, a state file written within the last 8
\* hours and no cost block.
ClaimC4 ==
    (/\ Evaluated /\ SessionExists
     /\ P.state.maxIterations >= 1
     /\ P.state.iteration >= P.state.maxIterations /\ ~P.state.complete
     /\ P.state.phase \notin {"SHIP", "COMPLETE"}
     /\ FileAge <= STALE_THRESHOLD_MS
     /\ NoCostBlock
     /\ NoEscalationMarker /\ NoOverrideMarker)
    => /\ out.code = "BLOCK" /\ out.reason = "IterationLimit"
       /\ out.exit = 2
       /\ StateUnwritten

\* C4 witness: a BUILD session at its limit is refused.
WitnessC4 ==
    /\ Evaluated /\ SessionExists /\ NoOverrideMarker /\ NoEscalationMarker
    /\ P.state.phase = "BUILD"
    /\ P.state.maxIterations >= 1
    /\ P.state.iteration = P.state.maxIterations
    /\ out.reason = "IterationLimit"

\* C5: while only the evaluator writes iteration and maxIterations, the
\* number of BLOCK(ContinuePhase) decisions never exceeds maxIterations minus
\* the initial iteration, also when maxIterations is absent or 0.
ClaimC5 ==
    start.kind = "ok"
    => continues <= (IF start.maxIterations >= start.iteration
                     THEN start.maxIterations - start.iteration ELSE 0)

\* C6: with complete = false, a phase among PLAN, BUILD, REVIEW and FIX, a
\* state that is not stale, iteration < maxIterations, no marker and no cost
\* block, the evaluation stores the state with iteration + 1, phase and
\* complete unchanged, and returns BLOCK(ContinuePhase) with the directive
\* of that phase.
ClaimC6 ==
    (/\ Evaluated /\ SessionExists
     /\ ~P.state.complete
     /\ P.state.phase \in {"PLAN", "BUILD", "REVIEW", "FIX"}
     /\ FileAge <= STALE_THRESHOLD_MS
     /\ P.state.iteration < P.state.maxIterations
     /\ NoOverrideMarker /\ NoEscalationMarker /\ NoCostBlock)
    => /\ out.code = "BLOCK" /\ out.reason = "ContinuePhase"
       /\ out.exit = 2
       /\ out.directive = P.state.phase
       /\ state.kind = "ok"
       /\ state.iteration = P.state.iteration + 1
       /\ state.phase = P.state.phase
       /\ state.complete = P.state.complete
       /\ state.maxIterations = P.state.maxIterations
       /\ stateMtime = T

\* C6 witness: the BUILD session one step below its limit reaches the limit
\* and gets the BUILD directive.
WitnessC6 ==
    /\ Evaluated /\ P.state.kind = "ok" /\ P.state.phase = "BUILD"
    /\ P.state.maxIterations = MaxIter
    /\ P.state.iteration = MaxIter - 1
    /\ state.iteration = MaxIter
    /\ out.reason = "ContinuePhase" /\ out.directive = "BUILD"

\* C7: from a state with iteration <= maxIterations, every stored state keeps
\* iteration <= maxIterations, and BLOCK(ContinuePhase) is never granted
\* from a state with iteration >= maxIterations.
ClaimC7 ==
    (start.kind = "ok" /\ start.iteration <= start.maxIterations)
    => /\ state.iteration <= state.maxIterations
       /\ (Evaluated /\ out.reason = "ContinuePhase")
          => P.state.iteration < P.state.maxIterations

ClaimC9 ==
    /\ (/\ Evaluated /\ NoOverrideMarker /\ NoEscalationMarker
        /\ CostLimitHit)
       => /\ out.code = "BLOCK" /\ out.reason = "CostLimitReached"
          /\ StateUnwritten
    /\ (/\ Evaluated /\ NoOverrideMarker /\ NoEscalationMarker
        /\ P.rlmContext.kind = "ok"
        /\ P.rlmContext.sub_calls >= RLM_SUB_CALL_WARNING
        /\ P.rlmContext.sub_calls < RLM_SUB_CALL_LIMIT)
       => LET quiet == [P EXCEPT !.rlmContext.sub_calls =
                                     RLM_SUB_CALL_WARNING - 1]
              other == main(quiet, T, 1).out
          IN  /\ out.warning /\ ~other.warning
              /\ out.code = other.code /\ out.reason = other.reason
              /\ out.directive = other.directive /\ out.task = other.task

\* C10: for a session with complete = true or phase COMPLETE or SHIP that
\* reaches completion verification, a validation state with at least one
\* error entry, whatever its timestamp, gives BLOCK(ValidationErrors) and
\* a stored state with phase FIX and complete = false.
ClaimC10 ==
    (/\ Evaluated /\ SessionExists /\ InCompletion
     /\ HasValidationError
     /\ NoOverrideMarker /\ NoEscalationMarker /\ ~CostLimitHit)
    => /\ out.code = "BLOCK" /\ out.reason = "ValidationErrors"
       /\ state.phase = "FIX" /\ ~state.complete

-----------------------------------------------------------------------------
(* Completion verification (steps 5a to 5c).                               *)

\* no step before completion verification decided: no override marker, no
\* readable escalation marker, no cost block
ReachesVerification ==
    /\ NoOverrideMarker
    /\ out.reason \notin {"EscalationPending", "CostLimitReached"}
\* every category is there, ran and passed, and allPassed is true
TestsVerified == TestsAllGreen /\ P.testResults.allPassed
\* a validation error of the last hour, the ones the validation check counts
RecentValidationError ==
    /\ P.validationState.kind = "ok"
    /\ \E i \in DOMAIN P.validationState.errors :
          P.validationState.errors[i].timestamp > T - VALIDATION_RECENT_MS
\* the stored state is the one found but for phase and complete
RevertedTo(phase) ==
    /\ state = [P.state EXCEPT !.phase = phase, !.complete = FALSE]
    /\ stateMtime = T
    /\ stateWrites = P.stateWrites + 1
BacklogReasons == {"TasksRemaining", "EscalationRequired", "ExitAllowed"}

\* C11: for a session with complete = true or phase COMPLETE or SHIP that
\* reaches completion verification with no validation error: if one of
\* tests, types, lint and build is absent, has ran = false or passed = false,
\* or allPassed is false, or test-results.json is missing or unreadable, the
\* evaluation returns BLOCK(TestsUnverified) with exit code 2 and stores the
\* state with phase REVIEW and complete = false.
ClaimC11 ==
    (/\ Evaluated /\ SessionExists /\ InCompletion
     /\ ReachesVerification
     /\ ~HasValidationError
     /\ ~TestsVerified)
    => /\ out.code = "BLOCK" /\ out.reason = "TestsUnverified"
       /\ out.exit = 2
       /\ RevertedTo("REVIEW")

\* C11 witness: every category passed but allPassed is false, and the
\* COMPLETE session is sent back to REVIEW.
WitnessC11 ==
    /\ Evaluated /\ SessionExists /\ P.state.phase = "COMPLETE"
    /\ TestsAllGreen /\ ~P.testResults.allPassed
    /\ out.reason = "TestsUnverified"
    /\ state.phase = "REVIEW" /\ ~state.complete

\* C12: for a session with complete = true or phase COMPLETE or SHIP that
\* reaches completion verification with no validation error and verified
\* tests, when git-results.json says isGitRepo and hasGhCli: the evaluation
\* returns BLOCK(GitIncomplete) and stores phase REVIEW, complete = false
\* exactly when a step whose enforcement flag is not false is not done (PR
\* created; CI checked and passed; merged).  A flag that is false never
\* blocks, an absent flag counts as required; when nothing is owed the state
\* is left unwritten.
ClaimC12 ==
    (/\ Evaluated /\ SessionExists /\ InCompletion
     /\ ReachesVerification
     /\ ~HasValidationError /\ TestsVerified
     /\ ToolingPresent)
    => IF RequiredGitDone
       THEN /\ out.reason \in BacklogReasons
            /\ StateUnwritten /\ stateWrites = P.stateWrites
       ELSE /\ out.code = "BLOCK" /\ out.reason = "GitIncomplete"
            /\ out.exit = 2
            /\ RevertedTo("REVIEW")

\* C12 witness: only the merge is owed, through an absent requireMerge flag,
\* and the SHIP session is sent back to REVIEW.
WitnessC12 ==
    /\ Evaluated /\ SessionExists /\ P.state.phase = "SHIP"
    /\ ToolingPresent
    /\ P.gitResults.prCreated /\ P.gitResults.ciChecked
    /\ P.gitResults.ciPassed /\ ~P.gitResults.merged
    /\ P.gitResults.requireMerge = "absent"
    /\ out.reason = "GitIncomplete"
    /\ state.phase = "REVIEW" /\ ~state.complete

-----------------------------------------------------------------------------
(* The backlog check, the escalation threshold and the final allow (steps  *)
(* 6 and 7).                                                               *)

\* no step before the backlog check decided
ReachesBacklog == out.reason \in BacklogReasons
\* the positions of the non-terminal, non-stale tasks
RemainingAt ==
    IF P.tasksData.kind # "ok" THEN {}
    ELSE {i \in DOMAIN P.tasksData.tasks :
             /\ P.tasksData.tasks[i].status \notin {"completed", "blocked"}
             /\ T - P.tasksData.tasks[i].createdAt
                <= TaskThresholdHours * MINUTES_PER_HOUR}
InProgressAt ==
    {i \in RemainingAt : P.tasksData.tasks[i].status = "in_progress"}
First(idx) == CHOOSE i \in idx : \A j \in idx : i <= j
EarliestTask == P.tasksData.tasks[First(RemainingAt)]
\* the first remaining task that is in progress, else the earliest one
SelectedTask ==
    IF InProgressAt # {} THEN P.tasksData.tasks[First(InProgressAt)]
    ELSE EarliestTask
\* the count failures.json holds for a task, 0 when it holds none
FailureCountOf(id) ==
    IF P.failures.kind # "ok" \/ ~\E e \in P.failures.log : e.taskId = id
    THEN 0
    ELSE (CHOOSE e \in P.failures.log : e.taskId = id).count

\* C14 as stated: when no earlier step decides and a non-terminal, non-stale
\* task remains, the task picked is the earliest such task of the list; its
\* failure count >= 3 gives ESCALATE, otherwise BLOCK(TasksRemaining) naming
\* it; with only completed, blocked and stale tasks the exit is allowed.
ClaimC14_Original ==
    (Evaluated /\ ReachesBacklog)
    => IF RemainingAt # {}
       THEN /\ out.task = EarliestTask.id
            /\ IF FailureCountOf(EarliestTask.id) >= MAX_CONSECUTIVE_FAILURES
               THEN out.code = "ESCALATE"
               ELSE out.code = "BLOCK" /\ out.reason = "TasksRemaining"
       ELSE out.code = "ALLOW"

\* C14 as amended: the task picked is the first remaining task whose status
\* is in_progress and, when there is none, the earliest remaining task; its
\* failure count >= 3 gives ESCALATE, otherwise BLOCK(TasksRemaining) naming
\* it; with only completed, blocked and stale tasks the exit is allowed.
ClaimC14 ==
    (Evaluated /\ ReachesBacklog)
    => IF RemainingAt # {}
       THEN /\ out.task = SelectedTask.id
            /\ out.exit = 2
            /\ IF FailureCountOf(SelectedTask.id) >= MAX_CONSECUTIVE_FAILURES
               THEN out.code = "ESCALATE" /\ out.reason = "EscalationRequired"
               ELSE out.code = "BLOCK" /\ out.reason = "TasksRemaining"
       ELSE out.code = "ALLOW" /\ out.reason = "ExitAllowed" /\ out.exit = 0

\* C14 witness: a pending task followed by a task in progress; the second is
\* the one named.
WitnessC14 ==
    /\ Evaluated /\ ReachesBacklog
    /\ RemainingAt = {1, 2}
    /\ P.tasksData.tasks[1].status = "pending"
    /\ P.tasksData.tasks[2].status = "in_progress"
    /\ out.reason = "TasksRemaining"
    /\ out.task = P.tasksData.tasks[2].id

\* C15: for the task the backlog check selects, a failure count of 2 gives
\* BLOCK(TasksRemaining) and writes no escalation marker; a count of 3 gives
\* ESCALATE and writes the marker for that task; an evaluation that finds a
\* readable marker returns ESCALATE without writing it, so that over any
\* number of evaluations the marker is written at most once.
ClaimC15 ==
    /\ (Evaluated /\ ReachesBacklog /\ RemainingAt # {})
       => /\ FailureCountOf(SelectedTask.id) = MAX_CONSECUTIVE_FAILURES - 1
             => /\ out.code = "BLOCK" /\ out.reason = "TasksRemaining"
                /\ escalation = P.escalation
                /\ markerWrites = P.markerWrites
          /\ FailureCountOf(SelectedTask.id) = MAX_CONSECUTIVE_FAILURES
             => /\ out.code = "ESCALATE" /\ out.exit = 2
                /\ escalation.kind = "ok"
                /\ escalation.taskId = SelectedTask.id
                /\ escalation.failures = MAX_CONSECUTIVE_FAILURES
                /\ markerWrites = P.markerWrites + 1
    /\ (Evaluated /\ NoOverrideMarker /\ P.escalation.kind = "ok")
       => /\ out.code = "ESCALATE" /\ out.exit = 2
          /\ escalation = P.escalation
          /\ markerWrites = P.markerWrites
    /\ markerWrites <= 1

\* C15 witness: the marker was written by an earlier evaluation, and this
\* one returns ESCALATE from its presence.
WitnessC15 ==
    /\ Evaluated
    /\ P.markerWrites = 1 /\ markerWrites = 1
    /\ P.escalation.kind = "ok"
    /\ P.escalation.failures = MAX_CONSECUTIVE_FAILURES
    /\ out.code = "ESCALATE" /\ out.reason = "EscalationPending"

\* the process of the last evaluation
EvaluatingPid == CHOOSE p \in Pids : TRUE
OwnLock(lk) == lk.kind = "ok" /\ lk.agentId = EvaluatingPid

\* C16: when no earlier step applies the evaluation returns ALLOW with exit
\* code 0 and afterwards no lock record of the evaluating process exists,
\* while any other lock record is left as it was.
ClaimC16 ==
    (Evaluated /\ out.reason \notin
        {"ForceExit", "ForceComplete", "RalphHandoff", "EscalationPending",
         "CostLimitReached", "IterationLimit", "ContinuePhase",
         "ValidationErrors", "TestsUnverified", "GitIncomplete",
         "EscalationRequired", "TasksRemaining"})
    => /\ out.code = "ALLOW" /\ out.exit = 0
       /\ ~OwnLock(lock)
       /\ IF OwnLock(P.lock) THEN lock.kind = "missing" ELSE lock = P.lock

\* C16 witness: the lock of the evaluating process is gone after the allow.
WitnessC16 ==
    /\ Evaluated /\ out.reason = "ExitAllowed"
    /\ OwnLock(P.lock)
    /\ lock.kind = "missing"

-----------------------------------------------------------------------------
(* Unreadable records.                                                     *)

\* the decision the hook takes from the directory d at the time of the last
\* evaluation
DecisionFrom(d) == main(d, T, EvaluatingPid).out
Verdict(o) == <<o.code, o.reason>>
\* the record rec of the last evaluation was unreadable, and the decision
\* is the one taken with that record missing
SameAsMissing(rec, none) ==
    P[rec].kind = "malformed"
    => Verdict(DecisionFrom([P EXCEPT ![rec] = none])) = Verdict(out)
\* the record rec of the last evaluation was unreadable, and no readable
\* record of the set good in its place is refused where this one is allowed
NeverLoosens(rec, good) ==
    P[rec].kind = "malformed"
    => \A w \in {x \in good : x.kind = "ok"} :
          DecisionFrom([P EXCEPT ![rec] = w]).code \in {"BLOCK", "ESCALATE"}
          => out.code # "ALLOW"
ReadableStates == {v[1] : v \in ReadabilityStates}

\* C17: for each record the evaluation reads (session state, test results,
\* git results, validation state, backlog, failure log, cost record,
\* escalation marker), an unreadable record gives the decision the same
\* directory gives with that record missing, and is never allowed where a
\* readable record in its place is refused.
ClaimC17 ==
    Evaluated
    => /\ SameAsMissing("state", NoState("missing"))
       /\ NeverLoosens("state", ReadableStates)
       /\ SameAsMissing("testResults", NoTests("missing"))
       /\ NeverLoosens("testResults", ReadabilityTests)
       /\ SameAsMissing("gitResults", NoGit("missing"))
       /\ NeverLoosens("gitResults", ReadabilityGit)
       /\ SameAsMissing("validationState", NoValidation("missing"))
       /\ NeverLoosens("validationState", ReadabilityValidation)
       /\ SameAsMissing("tasksData", NoTasks("missing"))
       /\ NeverLoosens("tasksData", ReadabilityTasks)
       /\ SameAsMissing("failures", NoFailures("missing"))
       /\ NeverLoosens("failures", ReadabilityFailures)
       /\ SameAsMissing("rlmContext", RlmContextFile("missing", 0))
       /\ NeverLoosens("rlmContext", ReadabilityContexts)
       /\ SameAsMissing("rlmCosts", RlmCostsFile("missing", 0, <<>>))
       /\ NeverLoosens("rlmCosts", ReadabilityCosts)
       /\ SameAsMissing("escalation", NoEscalation("missing"))
       /\ NeverLoosens("escalation", EscalationValues)

-----------------------------------------------------------------------------
(* Repeated evaluation and what one evaluation stores.                     *)

\* what the hook would decide if it ran again now
NextDecision == main(Files, now, EvaluatingPid).out

\* C18: with no one-shot marker present and nothing changed since the last
\* evaluation, evaluating again gives the decision (ALLOW, BLOCK or
\* ESCALATE) of the last evaluation, from every starting state.
ClaimC18 ==
    (Evaluated /\ NoOverrideMarker /\ now = T)
    => NextDecision.code = out.code

\* C19: an evaluation changes the stored iteration exactly when it returns
\* BLOCK(ContinuePhase), and then by 1; with every other outcome, for every
\* phase, the stored iteration is the one found.
ClaimC19 ==
    Evaluated
    => IF out.code = "BLOCK" /\ out.reason = "ContinuePhase"
       THEN state.iteration = P.state.iteration + 1
       ELSE state.iteration = P.state.iteration

\* Section 4.1: PLAN->BUILD, BUILD->REVIEW, REVIEW->FIX, REVIEW->SHIP,
\* FIX->REVIEW, SHIP->COMPLETE, any->CANCELLED
TransitionTable ==
    {<<"PLAN", "BUILD">>, <<"BUILD", "REVIEW">>, <<"REVIEW", "FIX">>,
     <<"REVIEW", "SHIP">>, <<"FIX", "REVIEW">>, <<"SHIP", "COMPLETE">>}
    \cup {<<ph, "CANCELLED">> : ph \in AllPhases}

\* C20: every change an evaluation makes to the stored phase is a pair of
\* the transition table; COMPLETE and CANCELLED are never left.
ClaimC20 ==
    (Evaluated /\ SessionExists /\ state.phase # P.state.phase)
    => /\ <<P.state.phase, state.phase>> \in TransitionTable
       /\ P.state.phase \notin {"COMPLETE", "CANCELLED"}

-----------------------------------------------------------------------------
(* The one-shot markers.                                                   *)

OverrideReasons == {"ForceExit", "ForceComplete", "RalphHandoff"}
\* how many of FORCE_EXIT, FORCE_COMPLETE and RALPH_HANDOFF a directory holds
MarkerCount(d) ==
    (IF d.forceExit THEN 1 ELSE 0) + (IF d.forceComplete THEN 1 ELSE 0)
    + (IF d.ralphHandoff THEN 1 ELSE 0)

\* C21 as stated: an evaluation that returns ALLOW because of a force-exit
\* or force-complete marker leaves neither marker behind, also when both
\* were present.
ClaimC21_Original ==
    (Evaluated /\ out.reason \in {"ForceExit", "ForceComplete"})
    => ~forceExit /\ ~forceComplete

\* C21 as amended: an evaluation that returns ALLOW because of a marker
\* deletes that marker alone, the first present of FORCE_EXIT,
\* FORCE_COMPLETE, RALPH_HANDOFF, and keeps the others, so that every marker
\* placed gives exactly one ALLOW, on successive evaluations; an evaluation
\* that finds no marker creates none and is decided by the ordinary rules.
ClaimC21 ==
    Evaluated
    => /\ P.forceExit
          => /\ out.code = "ALLOW" /\ out.reason = "ForceExit"
             /\ ~forceExit
             /\ forceComplete = P.forceComplete
             /\ ralphHandoff = P.ralphHandoff
       /\ (~P.forceExit /\ P.forceComplete)
          => /\ out.code = "ALLOW" /\ out.reason = "ForceComplete"
             /\ ~forceExit /\ ~forceComplete
             /\ ralphHandoff = P.ralphHandoff
       /\ (~P.forceExit /\ ~P.forceComplete /\ P.ralphHandoff)
          => /\ out.code = "ALLOW" /\ out.reason = "RalphHandoff"
             /\ ~forceExit /\ ~forceComplete /\ ~ralphHandoff
       /\ NoOverrideMarker
          => /\ out.reason \notin OverrideReasons
             /\ ~forceExit /\ ~forceComplete /\ ~ralphHandoff
       /\ out.reason \in OverrideReasons
          => MarkerCount(Files) = MarkerCount(P) - 1

\* C21 witness: FORCE_EXIT and FORCE_COMPLETE were both present; the
\* evaluation is allowed by FORCE_EXIT, deletes it and leaves FORCE_COMPLETE.
WitnessC21 ==
    /\ Evaluated
    /\ P.forceExit /\ P.forceComplete
    /\ out.code = "ALLOW" /\ out.reason = "ForceExit"
    /\ ~forceExit /\ forceComplete

-----------------------------------------------------------------------------
(* The lock manager.                                                       *)

Acquired == ret.op = "acquireLock"
Released == ret.op = "releaseLock"
LockAge == T - P.lock.acquiredAt

\* C22: acquire while a lock exists that is younger than the timeout
\* returns not-acquired with the holder's id and the lock's age and leaves
\* the lock file unchanged; acquire with no lock, or with a lock at least as
\* old as the timeout, writes a lock for the caller, dated now, and returns
\* acquired.
ClaimC22 ==
    (Acquired /\ P.lock.kind # "malformed")
    => IF P.lock.kind = "ok" /\ LockAge < LOCK_TIMEOUT_MS
       THEN /\ ~ret.acquired
            /\ ret.holder = P.lock.agentId
            /\ ret.age = LockAge
            /\ lock = P.lock
       ELSE /\ ret.acquired
            /\ lock = LockFile("ok", ret.pid, T)

\* C22 witness: worker 2 takes over the lock of worker 1 whose age is
\* exactly the timeout.
WitnessC22 ==
    /\ Acquired /\ ret.pid = 2
    /\ P.lock.kind = "ok" /\ P.lock.agentId = 1
    /\ LockAge = LOCK_TIMEOUT_MS
    /\ ret.acquired
    /\ lock.kind = "ok" /\ lock.agentId = 2 /\ lock.acquiredAt = T

\* C23: release deletes the lock file when it names the caller; release by
\* a worker the file does not name, a former holder included, leaves the
\* file unchanged, and release with no lock changes nothing.
ClaimC23 ==
    Released
    => /\ IF P.lock.kind = "ok" /\ P.lock.agentId = ret.pid
          THEN lock = NoLock("missing")
          ELSE lock = P.lock
       /\ Files = [P EXCEPT !.lock = lock]

\* C23 witness: worker 2 took the lock after the clock advanced; the release
\* by worker 1 leaves it in place.
WitnessC23 ==
    /\ Released /\ ret.pid = 1
    /\ P.lock.kind = "ok" /\ P.lock.agentId = 2
    /\ P.lock.acquiredAt > StartTime
    /\ lock = P.lock

\* C24: acquire on a lock file that cannot be read or parsed returns
\* acquired and leaves a valid lock for the caller, as with no lock.
ClaimC24 ==
    (Acquired /\ P.lock.kind = "malformed")
    => /\ ret.acquired
       /\ lock = LockFile("ok", ret.pid, T)

-----------------------------------------------------------------------------
(* The cost guard's bookkeeping.                                           *)

\* the last evaluation reached the cost guard
CostGuardRan ==
    Evaluated /\ NoOverrideMarker /\ out.reason # "EscalationPending"
CostReadable == P.rlmContext.kind = "ok" /\ P.rlmCosts.kind # "malformed"

\* C25: an evaluation that runs the cost guard with a readable cost record
\* adds the current sub_calls to total_sub_calls, which never decreases, and
\* appends one entry to the history; the history keeps at most 10 entries,
\* the most recent ones in order; the block and the warning follow the
\* current sub_calls alone, whatever the total.  Any other evaluation leaves
\* rlm-costs.json alone.
ClaimC25 ==
    /\ Len(rlmCosts.sessions) <= RLM_SESSIONS_KEPT
    /\ (CostGuardRan /\ CostReadable)
       => LET n == P.rlmContext.sub_calls
              old == P.rlmCosts.sessions
              new == rlmCosts.sessions
              dropped == Len(old) + 1 - Len(new)
          IN  /\ rlmCosts.kind = "ok"
              /\ rlmCosts.total_sub_calls = P.rlmCosts.total_sub_calls + n
              /\ rlmCosts.total_sub_calls >= P.rlmCosts.total_sub_calls
              /\ costWrites = P.costWrites + 1
              /\ Len(new) = IF Len(old) < RLM_SESSIONS_KEPT
                            THEN Len(old) + 1 ELSE RLM_SESSIONS_KEPT
              /\ new[Len(new)] = n
              /\ \A i \in 1 .. Len(new) - 1 : new[i] = old[i + dropped]
              /\ out.reason = "CostLimitReached" <=> n >= RLM_SUB_CALL_LIMIT
              /\ out.warning
                 <=> (n >= RLM_SUB_CALL_WARNING /\ n < RLM_SUB_CALL_LIMIT)
    /\ (Evaluated /\ ~(CostGuardRan /\ CostReadable))
       => rlmCosts = P.rlmCosts /\ costWrites = P.costWrites

\* C25 witness: a full history and a total far above the limit; the oldest
\* entry is dropped, the new one appended, and 29 sub-calls do not block.
WitnessC25 ==
    /\ CostGuardRan /\ CostReadable
    /\ Len(P.rlmCosts.sessions) = RLM_SESSIONS_KEPT
    /\ P.rlmCosts.total_sub_calls >= RLM_SUB_CALL_LIMIT
    /\ P.rlmContext.sub_calls = RLM_SUB_CALL_WARNING - 1
    /\ Len(rlmCosts.sessions) = RLM_SESSIONS_KEPT
    /\ rlmCosts.sessions[1] = P.rlmCosts.sessions[2]
    /\ rlmCosts.sessions[RLM_SESSIONS_KEPT] = RLM_SUB_CALL_WARNING - 1
    /\ out.reason # "CostLimitReached" /\ ~out.warning

-----------------------------------------------------------------------------
(* The escalation manager.                                                 *)

Tracked == ret.op = "trackFailure"
Checked == ret.op = "checkUserEscalation"
\* the count a failures.json holds for a task, 0 when it holds none
CountIn(fl, id) ==
    IF fl.kind # "ok" \/ ~\E e \in fl.log : e.taskId = id THEN 0
    ELSE (CHOOSE e \in fl.log : e.taskId = id).count
EntryOf(fl, id) == CHOOSE e \in fl.log : e.taskId = id

\* C26: a completed trackFailure call raises the count of its task by 1 and
\* returns the new count, and no step of any worker or of the hook, however
\* the calls interleave, lowers or removes the count of a task.
ClaimC26 ==
    /\ \A id \in BacklogIds : CountIn(failures, id) >= CountIn(P.failures, id)
    /\ Tracked
       => /\ CountIn(failures, ret.task) = CountIn(P.failures, ret.task) + 1
          /\ ret.count = CountIn(failures, ret.task)

\* the errors list is as long as the slice the escalation keeps
ErrorHistoryBound == MAX_CONSECUTIVE_FAILURES

\* C27: after a trackFailure call that wrote, the errors list of the task
\* is no longer than a fixed bound and lastFailure is the time of the call.
ClaimC27 ==
    (Tracked /\ ret.count > 0)
    => /\ Len(EntryOf(failures, ret.task).errors) <= ErrorHistoryBound
       /\ EntryOf(failures, ret.task).lastFailure = T

\* C28: checkUserEscalation(taskId) returns escalate = true exactly when
\* failures.json is readable and holds a count >= 3 for the task; otherwise
\* it writes nothing; when it escalates NEEDS_USER is a readable marker that
\* names the task, its count and its last 3 errors in order, whatever marker
\* was there before, so that a second call with the same failure log leaves
\* the same task, count and errors.
ClaimC28 ==
    Checked
    => /\ ret.escalate
          <=> CountIn(P.failures, ret.task) >= MAX_CONSECUTIVE_FAILURES
       /\ ~ret.escalate
          => escalation = P.escalation /\ markerWrites = P.markerWrites
       /\ ret.escalate
          => LET e == EntryOf(P.failures, ret.task)
                 n == Len(e.errors)
             IN  /\ escalation.kind = "ok"
                 /\ escalation.taskId = ret.task
                 /\ escalation.failures = e.count
                 /\ escalation.errors =
                        IF n <= 3 THEN e.errors
                        ELSE <<e.errors[n - 2], e.errors[n - 1], e.errors[n]>>
                 /\ markerWrites = P.markerWrites + 1

\* C28 witness: a second call for a task with 4 failures, over the marker
\* the first call wrote, leaves the task, the count and the errors 2, 3, 4.
WitnessC28 ==
    /\ Checked /\ ret.escalate
    /\ P.markerWrites = 1 /\ markerWrites = 2
    /\ CountIn(P.failures, ret.task) = MAX_CONSECUTIVE_FAILURES + 1
    /\ P.escalation.kind = "ok" /\ P.escalation.taskId = ret.task
    /\ escalation.taskId = P.escalation.taskId
    /\ escalation.failures = P.escalation.failures
    /\ escalation.errors = P.escalation.errors
    /\ escalation.errors = <<2, 3, 4>>

\* C29: no evaluation, whatever it decides, and no call of the escalation
\* manager deletes NEEDS_USER: a marker found by a step is still there
\* after it.
ClaimC29 ==
    P.escalation.kind # "missing" => escalation.kind # "missing"

\* C29 witness: an evaluation allowed by FORCE_EXIT leaves the marker it
\* found.
WitnessC29 ==
    /\ Evaluated /\ out.code = "ALLOW" /\ out.reason = "ForceExit"
    /\ P.escalation.kind = "ok"
    /\ escalation = P.escalation

-----------------------------------------------------------------------------
(* Validation errors recorded by the post-edit validator.                  *)

\* the validator recorded an error for the file and has not cleared it
ErrorRecordedFor(filePath) ==
    /\ P.validationState.kind = "ok"
    /\ \E i \in DOMAIN P.validationState.errors :
          P.validationState.errors[i].file = filePath
\* the same, with the error recorded within the last hour
ErrorRecentFor(filePath) ==
    /\ P.validationState.kind = "ok"
    /\ \E i \in DOMAIN P.validationState.errors :
          /\ P.validationState.errors[i].file = filePath
          /\ P.validationState.errors[i].timestamp > T - VALIDATION_RECENT_MS

\* C30: while an error that the validator recorded for a file is still in
\* the validation state (the file was not validated again without errors),
\* every evaluation that reaches verification of a session in completion
\* blocks with ValidationErrors, however long ago the error was recorded.
ClaimC30 ==
    \A filePath \in EditedFiles :
        (/\ Evaluated /\ SessionExists /\ InCompletion
         /\ ReachesVerification
         /\ ErrorRecordedFor(filePath))
        => out.code = "BLOCK" /\ out.reason = "ValidationErrors"

-----------------------------------------------------------------------------
(* Cancellation.                                                           *)

\* the evaluation found the state and the absent markers the cancel
\* command leaves
FoundCancelled ==
    /\ P.state = CancelledState
    /\ NoOverrideMarker /\ NoEscalationMarker

\* C31: the evaluation that follows a cancellation, when neither the cost
\* guard nor the backlog decides it, allows the exit and leaves the state
\* cancelled and complete, whatever the tests, git and validation records.
ClaimC31 ==
    (/\ Evaluated /\ FoundCancelled
     /\ out.reason \notin {"CostLimitReached", "TasksRemaining",
                           "EscalationRequired"})
    => /\ out.code = "ALLOW"
       /\ state.phase = "CANCELLED" /\ state.complete

-----------------------------------------------------------------------------
(* Staleness.                                                              *)

StateIsStale == SessionExists /\ FileAge > STALE_THRESHOLD_MS
VerificationFailures ==
    {"ValidationErrors", "TestsUnverified", "GitIncomplete"}
\* the evaluation of the same files with a state.json written just now
FreshRun == main([P EXCEPT !.stateMtime = T], T, EvaluatingPid)

\* C32: for a session in completion whose state is older than 8 hours the
\* evaluation decides and writes what it does for the same state written
\* just now; a failing verification blocks and reverts the phase.
ClaimC32 ==
    (Evaluated /\ InCompletion /\ StateIsStale)
    => /\ out = FreshRun.out
       /\ state = FreshRun.files.state
       /\ ~out.stale
       /\ out.reason \in VerificationFailures
          => /\ out.code = "BLOCK"
             /\ state.phase \in {"FIX", "REVIEW"} /\ ~state.complete
             /\ stateWrites = P.stateWrites + 1
       /\ (ReachesVerification /\ ~RecentValidationError /\ ~TestsVerified)
          => out.reason = "TestsUnverified"

\* C32 witness: a stale session in completion with failing tests is blocked
\* and sent back to REVIEW.
WitnessC32 ==
    /\ Evaluated /\ InCompletion /\ StateIsStale
    /\ ~TestsVerified
    /\ out.code = "BLOCK" /\ out.reason = "TestsUnverified"
    /\ state.phase = "REVIEW" /\ ~state.complete

-----------------------------------------------------------------------------
(* The frame of the decisions.                                             *)

\* the decisions that write state.json
WritingReasons == {"ContinuePhase"} \cup VerificationFailures

\* C34: an evaluation that does not return BLOCK(ContinuePhase) or one of
\* the three verification failures leaves state.json as it found it, and
\* one that does writes it once.
ClaimC34 ==
    Evaluated
    => IF out.code = "BLOCK" /\ out.reason \in WritingReasons
       THEN stateWrites = P.stateWrites + 1
       ELSE StateUnwritten /\ stateWrites = P.stateWrites

-----------------------------------------------------------------------------
(* Interleaved calls.                                                      *)

\* the worker was told acquired, less than the timeout ago, and has not
\* released
Holds(w) ==
    /\ proc[w].got = "acquired"
    /\ now - proc[w].since < LOCK_TIMEOUT_MS

\* C35: with the steps of acquireLock interleaved, two workers never both
\* hold the lock: at most one is told acquired while the other's
\* acquisition is younger than the timeout.
ClaimC35 ==
    \A v, w \in Workers : (v # w) => ~(Holds(v) /\ Holds(w))

\* the iterations the session had left when it was first stored
Budget ==
    IF start.maxIterations > start.iteration
    THEN start.maxIterations - start.iteration ELSE 0

\* C36: with the read and the write of state.json interleaved between two
\* hook processes, every BLOCK(ContinuePhase) granted is one increment of
\* the stored iteration, and no more are granted than the budget.
ClaimC36 ==
    /\ state.iteration = start.iteration + continues
    /\ continues <= Budget

\* the evaluation of the worker was allowed on account of a marker
AllowedByMarker(w) == proc[w].got \in OverrideReasons

\* C37: with one override marker and the existence check and the unlink
\* interleaved between two hook processes, at most one of the two
\* evaluations is allowed on account of the marker.
ClaimC37 ==
    \A v, w \in Workers :
        (v # w) => ~(AllowedByMarker(v) /\ AllowedByMarker(w))

-----------------------------------------------------------------------------
(* The validation state the validator keeps.                               *)

Validated == ret.op = "validate"
\* the run validated the file, not skipped, and found no error
RanClean == Validated /\ ~ret.escalate /\ ret.count = 0
\* the errors the run found on disk, none in an absent or unreadable file
ErrorsFound == loadValidationState(P.validationState).errors
EntriesOf(errors, filePath) ==
    {i \in DOMAIN errors : errors[i].file = filePath}

\* C38: the errors list never holds more than 50 entries nor two entries
\* with the same path and message; a run that validates a file without
\* errors removes every entry of the file and leaves the entries of the
\* other files as they were, in their order.
ClaimC38 ==
    /\ validationState.kind = "ok"
       => /\ Len(validationState.errors) <= VALIDATION_ERRORS_KEPT
          /\ \A i, j \in DOMAIN validationState.errors :
                (/\ validationState.errors[i].file
                       = validationState.errors[j].file
                 /\ validationState.errors[i].message
                       = validationState.errors[j].message)
                => i = j
    /\ RanClean
       => /\ validationState.kind = "ok"
          /\ EntriesOf(validationState.errors, ret.task) = {}
          /\ validationState.errors =
                SelectSeqBy(ErrorsFound,
                    {e \in Range(ErrorsFound) : e.file # ret.task})

\* C38 witness: a clean run of a file that had two entries, in a list that
\* also holds entries of other files, which stay.
WitnessC38 ==
    /\ RanClean
    /\ Cardinality(EntriesOf(ErrorsFound, ret.task)) = 2
    /\ Len(ErrorsFound) > 2
    /\ Len(validationState.errors) = Len(ErrorsFound) - 2

-----------------------------------------------------------------------------
(* After the user removed the escalation marker.                           *)

\* the hook wrote NEEDS_USER earlier and the evaluation found it gone
MarkerWasRemoved == P.markerWrites > 0 /\ NoEscalationMarker

\* C39: the evaluation that follows the removal of NEEDS_USER, with no
\* override marker, does not escalate and leaves NEEDS_USER absent.
ClaimC39 ==
    (Evaluated /\ NoOverrideMarker /\ MarkerWasRemoved)
    => /\ out.code # "ESCALATE"
       /\ escalation.kind = "missing"

-----------------------------------------------------------------------------
(* The session-start hook.                                                 *)

SessionStarted == ret.op = "sessionStart"
DirectoryRemoved == SessionStarted /\ ret.escalate
CleanupPeriodMs == DEFAULT_CLEANUP_DAYS * HOURS_PER_DAY * MINUTES_PER_HOUR
\* the non-terminal non-stale tasks of the backlog the hook found
PendingFound == getPendingTasks(P.tasksData, T)

\* C40: the session-start hook removes the directory only if the state is
\* complete in phase COMPLETE or state.json is older than the cleanup
\* period (or, without a readable state.json, that old a directory), never
\* while a non-terminal non-stale task is in the backlog, and it reports
\* every such task.
ClaimC40 ==
    SessionStarted
    => /\ DirectoryRemoved
          => \/ P.state.kind # "ok"
             \/ P.state.complete /\ P.state.phase = "COMPLETE"
             \/ T - P.stateMtime > CleanupPeriodMs
       /\ PendingFound # <<>> => ~DirectoryRemoved
       /\ ret.count = Len(PendingFound)
       /\ ret.holder = 0

====
